---- MODULE Spec2Model ----
(***************************************************************************)
(* FinanceApp: the Navigation/Session Controller (src/core/stores/app.js)  *)
(* and the Local Data & Session Store (src/core/db/db-service.js) as a     *)
(* state machine.  JavaScript is single threaded: every action below is    *)
(* one run-to-completion stretch of a handler, from one await to the next. *)
(***************************************************************************)
EXTENDS Integers, Sequences, FiniteSets, TLC

\* JavaScript null / undefined / a missing storage key.
NULL == "null"

-----------------------------------------------------------------------------
\* Bounds of the model.

\* Entries the browser keeps in the session history (older ones are dropped).
MaxHistory == 3
\* Operations (navigateTo, login, logout, popstate, sweep, ...) in flight at once.
MaxInFlight == 2
\* Operations the user and the timers start in one behaviour, after the boot.
MaxCalls == 3
\* Tokens makeToken() may hand out in one behaviour.
MaxTokens == 2
\* Days the clock may advance.
MaxTime == 3
\* Nested synchronous navigateTo calls the engine's stack holds before RangeError.
StackLimit == 3
\* The parts of a day that the date of a transaction tells apart.
DayLen == 2

-----------------------------------------------------------------------------
\* config.js

PAGES ==
  [ LANDING |-> "landing", LOGIN |-> "login", REGISTER |-> "register",
    DASHBOARD |-> "dashboard", SETTINGS |-> "settings", TEST |-> "test",
    TEST2 |-> "test2", ERROR |-> "error" ]

\* A path is the sequence of its "/" separators and its segment names.
BASE == << "/", "FinanceApp", "/" >>

MAIN_CONTAINER_ID == "main-content"
MODAL_CONTAINER_ID == "modal-content"

Route(name, path, target, type) ==
  [ name |-> name, path |-> path, target |-> target, type |-> type ]

ROUTES ==
  ( PAGES.LOGIN :> Route(PAGES.LOGIN, NULL, MODAL_CONTAINER_ID, "modal") ) @@
  ( PAGES.REGISTER :> Route(PAGES.REGISTER, NULL, MODAL_CONTAINER_ID, "modal") ) @@
  ( PAGES.DASHBOARD :> Route(PAGES.DASHBOARD, <<"/", "dashboard">>, MAIN_CONTAINER_ID, "page") ) @@
  ( PAGES.LANDING :> Route(PAGES.LANDING, <<"/">>, MAIN_CONTAINER_ID, "page") ) @@
  ( PAGES.TEST :> Route(PAGES.TEST, <<"/", "test">>, MAIN_CONTAINER_ID, "page") ) @@
  ( PAGES.TEST2 :> Route(PAGES.TEST2, <<"/", "test2">>, MAIN_CONTAINER_ID, "page") ) @@
  ( PAGES.ERROR :> Route(PAGES.ERROR, <<"/", "404">>, MAIN_CONTAINER_ID, "page") )

AUTH ==
  [ required |-> { PAGES.DASHBOARD, PAGES.SETTINGS },
    restricted |-> { PAGES.LOGIN, PAGES.REGISTER, PAGES.LANDING },
    modals |-> { PAGES.LOGIN, PAGES.REGISTER, PAGES.SETTINGS } ]

\* constants.js: SESSION_EXPIRY in days.
SESSION_EXPIRY_SHORT == 1
SESSION_EXPIRY_LONG == 30

-----------------------------------------------------------------------------
\* The inputs the environment may hand to the handlers.

\* Page keys given to navigateTo: every page constant that behaves differently
\* (register is a modal route like login; test2 and error are page routes like
\* test) and a key that is no page constant.
PageKeys ==
  { PAGES.LANDING, PAGES.LOGIN, PAGES.DASHBOARD, PAGES.SETTINGS, PAGES.TEST, "nosuch" }

\* The ++id keys of db.users, in key order.
UserIds == << "u1", "u2" >>
Passwords == { "pw1", "pw2" }
Identifiers == { "ann", "bob@x.org", "nobody" }

-----------------------------------------------------------------------------
VARIABLES
  \* Alpine.store('app')
  currentUser,      \* id of the user record held by the store, or NULL
  lastPage,
  currentPage,
  activeModal,
  \* the browser
  history,          \* session history: entries [state |-> page key or NULL, path]
  hidx,             \* index of the current entry; location.pathname is its path
  sessionToken,     \* localStorage 'sessionToken'
  appCurrentPage,   \* sessionStorage 'app.currentPage'
  modalContent,     \* fragment in #modal-content, NULL when empty
  timers,           \* pending setTimeout callbacks of closeLoginModal
  \* the database (db.js)
  users,            \* db.users: id -> record
  session,          \* db.session: set of rows
  nextSessionId,    \* the ++id of db.session
  categories,       \* db.categories: set of rows
  nextCategoryId,   \* the ++id of db.categories
  transactions,     \* db.transactions: set of rows
  nextTransactionId,
  \* the environment
  now,              \* the clock, in days
  nextToken,        \* the next value makeToken() returns
  calls,            \* operations started so far
  \* operations suspended at an await
  boot,             \* initApp: [pc, uid]
  navs,             \* bags of continuations
  logins,
  logouts,
  sweeps,
  reads,
  \* what the last step invoked and completed (observation only)
  ev

storeVars == << currentUser, lastPage, currentPage, activeModal >>
browserVars == << history, hidx, sessionToken, appCurrentPage, modalContent, timers >>
dbVars == << users, session, nextSessionId >>
dataVars == << categories, nextCategoryId, transactions, nextTransactionId >>
envVars == << now, nextToken, calls >>
procVars == << boot, navs, logins, logouts, sweeps, reads >>
vars == << storeVars, browserVars, dbVars, dataVars, envVars, procVars, ev >>

-----------------------------------------------------------------------------
\* Bags of continuations, as functions from a continuation to its multiplicity.

EmptyBag == << >>
BagOf(b) == DOMAIN b
BagSize(b) ==
  LET RECURSIVE Sum(_)
      Sum(S) == IF S = {} THEN 0
                ELSE LET x == CHOOSE y \in S : TRUE IN b[x] + Sum(S \ {x})
  IN Sum(DOMAIN b)
BagAdd(b, x) ==
  IF x \in DOMAIN b THEN [ b EXCEPT ![x] = @ + 1 ] ELSE b @@ (x :> 1)
BagDel(b, x) ==
  IF b[x] > 1 THEN [ b EXCEPT ![x] = @ - 1 ]
  ELSE [ y \in (DOMAIN b) \ {x} |-> b[y] ]

InFlight ==
  BagSize(navs) + BagSize(logins) + BagSize(logouts) + BagSize(sweeps)
    + BagSize(reads) + timers

\* initApp has returned or failed, and nothing is suspended.
Quiet == InFlight = 0 /\ boot.pc \in { "done", "failed" }

\* The guard of an operation the user starts: the page is shown once initApp has
\* returned (main.js:183-205).
MayCall == boot.pc = "done" /\ InFlight < MaxInFlight /\ calls < MaxCalls

-----------------------------------------------------------------------------
\* util.js

\* normalizePath: collapse runs of "/" into one; the empty path becomes "/".
RECURSIVE collapse(_)
collapse(p) ==
  IF Len(p) < 2 THEN p
  ELSE IF p[1] = "/" /\ p[2] = "/" THEN collapse(Tail(p))
  ELSE << p[1] >> \o collapse(Tail(p))

normalizePath(path) ==
  LET p == collapse(path) IN IF p = << >> THEN << "/" >> ELSE p

-----------------------------------------------------------------------------
\* The browser's History API.

\* The URL a history entry gets: a relative URL replaces what follows the last
\* "/" of the current location.
RECURSIVE dirOf(_)
dirOf(p) ==
  IF p = << >> \/ p[Len(p)] = "/" THEN p ELSE dirOf(SubSeq(p, 1, Len(p) - 1))

ResolveUrl(cur, url) ==
  IF url # << >> /\ url[1] = "/" THEN url ELSE dirOf(cur) \o url

\* location.pathname when the entry at index i is the current one.
pathname(i) == history[i].path

Entry(i, page, url) == [ state |-> page, path |-> ResolveUrl(pathname(i), url) ]

\* history.pushState: entries after the current one are discarded.
pushState(i, page, url) ==
  LET h == Append(SubSeq(history, 1, i), Entry(i, page, url))
  IN IF Len(h) > MaxHistory THEN Tail(h) ELSE h

replaceState(i, page, url) == [ history EXCEPT ![i] = Entry(i, page, url) ]

-----------------------------------------------------------------------------
\* Observation of a step: the navigateTo call it made (nav), with whether the
\* caller was authenticated and whether nothing was in flight at the call, and
\* the operation that returned in it (done).

NavEv(key, auth, kind, alone) ==
  [ key |-> key, auth |-> auth, kind |-> kind, alone |-> alone ]
DoneEv(op, req, auth, res) == [ op |-> op, req |-> req, auth |-> auth, res |-> res ]
Ev(nav, done) == [ nav |-> nav, done |-> done ]
NoNav == NavEv(NULL, FALSE, NULL, FALSE)
NoDone == DoneEv(NULL, NULL, FALSE, NULL)
NoEv == Ev(NoNav, NoDone)

\* The operation a navigateTo call belongs to. A call the page makes while
\* another operation is in flight is told apart from one it makes alone.
Caller(op, req) == [ op |-> op, req |-> req ]
PageCall == IF InFlight = 0 THEN "navigateTo" ELSE "navigateTo, overlapping"

-----------------------------------------------------------------------------
\* app.js: the page router.

\* A guard that keeps the anonymous out of the auth-required pages and lets
\* the authenticated onto the auth-restricted ones.
canAccessUnrestricted(cu, page) == ~ (cu = NULL /\ page \in AUTH.required)

\* canAccess(page), with this.currentUser = cu.
canAccess(cu, page) ==
  IF cu = NULL /\ page \in AUTH.required THEN FALSE
  ELSE ~ (cu # NULL /\ page \in AUTH.restricted)

\* A navigateTo without the same-page return of line 129.
RECURSIVE navigateToSyncNoSamePage(_, _, _, _, _)
navigateToSyncNoSamePage(page, uh, cu, cp, depth) ==
  IF depth > StackLimit THEN [ kind |-> "RangeError", page |-> page, uh |-> uh ]
  ELSE IF page \notin DOMAIN ROUTES
    THEN navigateToSyncNoSamePage(PAGES.LANDING, uh, cu, cp, depth + 1)
  ELSE IF ROUTES[page].type = "modal" THEN [ kind |-> "modal", page |-> page, uh |-> uh ]
  ELSE IF ~ canAccess(cu, page)
    THEN navigateToSyncNoSamePage(PAGES.LANDING, FALSE, cu, cp, depth + 1)
  ELSE [ kind |-> "page", page |-> page, uh |-> uh ]

\* navigateTo up to its first await: the route lookup, the same-page return, the
\* modal branch and the guard, with their nested navigateTo calls. Every nested
\* call is a stack frame; the engine throws RangeError when the stack is full.
\* cu is this.currentUser and cp is this.currentPage.
RECURSIVE navigateToSync(_, _, _, _, _)
navigateToSync(page, uh, cu, cp, depth) ==
  IF depth > StackLimit THEN [ kind |-> "RangeError", page |-> page, uh |-> uh ]
  ELSE IF page \notin DOMAIN ROUTES
    THEN navigateToSync(PAGES.LANDING, uh, cu, cp, depth + 1)
  ELSE IF ROUTES[page].name = cp THEN [ kind |-> "same", page |-> page, uh |-> uh ]
  ELSE IF ROUTES[page].type = "modal" THEN [ kind |-> "modal", page |-> page, uh |-> uh ]
  ELSE IF ~ canAccess(cu, page)
    THEN navigateToSync(PAGES.LANDING, FALSE, cu, cp, depth + 1)
  ELSE [ kind |-> "page", page |-> page, uh |-> uh ]

\* A navigateTo that leaves the history alone when updateHistory is false.
historyCallNoReplace(page, uh, i) ==
  LET targetPath == normalizePath(<< page >>)
      currentPath == normalizePath(pathname(i))
  IN IF uh THEN (IF currentPath # targetPath THEN "push" ELSE "none")
     ELSE "none"

\* The history call of navigateTo: "push", "replace" or "none".
historyCall(page, uh, i) ==
  LET targetPath == normalizePath(<< page >>)
      currentPath == normalizePath(pathname(i))
  IN IF uh THEN (IF currentPath # targetPath THEN "push" ELSE "none")
     ELSE "replace"

\* closeModals() -> closeLoginModal(): with #login-modal in the document a timer
\* is set that empties the modal container; activeModal is cleared either way.
closeModals ==
  /\ activeModal' = NULL
  /\ timers' = IF modalContent = PAGES.LOGIN THEN timers + 1 ELSE timers

\* A suspended navigateTo: at "persist" (await persistPage), at "load" (await
\* htmx.ajax of a page) or at "modal" (await htmx.ajax inside openModal). uid is
\* this.currentUser at the call, hist the history call it made.
Nav(pc, page, uid, hist, caller) ==
  [ pc |-> pc, page |-> page, uid |-> uid, hist |-> hist, caller |-> caller ]

\* A navigateTo(key, {updateHistory: uh}) call with this.currentUser = cu, from
\* its entry to its first await or its return. It sets the variables of the
\* router: navs, history, hidx, appCurrentPage, activeModal, timers and ev. The
\* current history entry is the one at index i, sessionStorage holds acp under
\* 'app.currentPage' and bag holds the other suspended navigateTo calls.
navigateTo(key, uh, cu, acp, caller, bag, i) ==
  LET r == navigateToSync(key, uh, cu, currentPage, 0)
      call == NavEv(key, cu # NULL, r.kind, InFlight = 0)
      hc == historyCall(r.page, r.uh, i)
  IN
  CASE r.kind \in { "RangeError", "same" } ->
         /\ navs' = bag
         /\ ev' = Ev(call, DoneEv(caller.op, caller.req, cu # NULL, r.kind))
         /\ hidx' = i
         /\ appCurrentPage' = acp
         /\ UNCHANGED << history, activeModal, timers >>
    [] r.kind = "modal" ->
         /\ navs' = BagAdd(bag, Nav("modal", r.page, cu, "none", caller))
         /\ ev' = Ev(call, NoDone)
         /\ hidx' = i
         /\ appCurrentPage' = acp
         /\ UNCHANGED << history, activeModal, timers >>
    [] r.kind = "page" ->
         /\ IF activeModal # NULL THEN closeModals
            ELSE UNCHANGED << activeModal, timers >>
         /\ history' = CASE hc = "push" -> pushState(i, r.page, << r.page >>)
                         [] hc = "replace" -> replaceState(i, r.page, << r.page >>)
                         [] OTHER -> history
         /\ hidx' = IF hc = "push" THEN Len(history') ELSE i
         /\ IF cu # NULL
            THEN /\ navs' = BagAdd(bag, Nav("persist", r.page, cu, hc, caller))
                 /\ appCurrentPage' = acp
            ELSE /\ navs' = BagAdd(bag, Nav("load", r.page, cu, hc, caller))
                 /\ appCurrentPage' = r.page
         /\ ev' = Ev(call, NoDone)

\* Whether a navigateTo call is suspended (TRUE) or has returned or thrown.
suspends(key, uh, cu) ==
  navigateToSync(key, uh, cu, currentPage, 0).kind \in { "modal", "page" }

\* initApp after an awaited navigateTo settled: the first one (on failure the
\* catch falls back to landing), the fallback (on failure initApp rejects) or
\* the one of the session restore (on failure the catch removes the token).
bootAfterNav(caller, ok) ==
  IF caller.op # "initApp" THEN boot
  ELSE [ boot EXCEPT !.pc =
           CASE caller.req = "first" -> IF ok THEN "restore" ELSE "fallback"
             [] caller.req = "fallback" -> IF ok THEN "restore" ELSE "failed"
             [] OTHER -> "done" ]

\* navigateTo called by the page (a click handler, goToLanding, goToDashboard,
\* handleLogoClick).
NavCall(key, uh) ==
  /\ MayCall
  /\ calls' = calls + 1
  /\ navigateTo(key, uh, currentUser, appCurrentPage, Caller(PageCall, key),
                navs, hidx)
  /\ UNCHANGED << currentUser, lastPage, currentPage, sessionToken, modalContent >>
  /\ UNCHANGED << dbVars, now, nextToken, boot, logins, logouts, sweeps, reads >>
  /\ UNCHANGED dataVars

\* await DatabaseService.persistPage(this.currentUser.id, page) completes; the
\* fragment loader is called.
NavPersisted(n) ==
  /\ n \in BagOf(navs) /\ n.pc = "persist"
  /\ users' = [ users EXCEPT ![n.uid].lastPage = n.page ]
  /\ navs' = BagAdd(BagDel(navs, n), [ n EXCEPT !.pc = "load" ])
  /\ ev' = NoEv
  /\ UNCHANGED << storeVars, browserVars, session, nextSessionId, envVars >>
  /\ UNCHANGED << boot, logins, logouts, sweeps, reads >>
  /\ UNCHANGED dataVars

\* A navigateTo that drops the result of its load while another navigateTo is
\* in flight.
NavLoadedUnlessOverlapped(n) ==
  /\ n \in BagOf(navs) /\ n.pc = "load"
  /\ IF BagSize(navs) > 1
     THEN UNCHANGED << lastPage, currentPage >>
     ELSE lastPage' = currentPage /\ currentPage' = n.page
  /\ navs' = BagDel(navs, n)
  /\ boot' = bootAfterNav(n.caller, TRUE)
  /\ ev' = Ev(NoNav, DoneEv(n.caller.op, n.caller.req, n.uid # NULL, "ok"))
  /\ UNCHANGED << currentUser, activeModal, browserVars, dbVars, envVars >>
  /\ UNCHANGED << logins, logouts, sweeps, reads >>
  /\ UNCHANGED dataVars

\* The fragment loader resolves: the store is updated and navigateTo returns.
NavLoaded(n) ==
  /\ n \in BagOf(navs) /\ n.pc = "load"
  /\ lastPage' = currentPage
  /\ currentPage' = n.page
  /\ navs' = BagDel(navs, n)
  /\ boot' = bootAfterNav(n.caller, TRUE)
  /\ ev' = Ev(NoNav, DoneEv(n.caller.op, n.caller.req, n.uid # NULL, "ok"))
  /\ UNCHANGED << currentUser, activeModal, browserVars, dbVars, envVars >>
  /\ UNCHANGED << logins, logouts, sweeps, reads >>
  /\ UNCHANGED dataVars

\* The fragment loader rejects: navigateTo rejects, the store stays as it is.
NavLoadFailed(n) ==
  /\ n \in BagOf(navs) /\ n.pc \in { "load", "modal" }
  /\ navs' = BagDel(navs, n)
  /\ boot' = bootAfterNav(n.caller, FALSE)
  /\ sessionToken' = IF n.caller = Caller("initApp", "restore") THEN NULL
                     ELSE sessionToken
  /\ ev' = Ev(NoNav, DoneEv(n.caller.op, n.caller.req, n.uid # NULL, "rejected"))
  /\ UNCHANGED << storeVars, history, hidx, appCurrentPage, modalContent, timers >>
  /\ UNCHANGED << dbVars, envVars, logins, logouts, sweeps, reads >>
  /\ UNCHANGED dataVars

\* An openModal that records the modal as the current page.
ModalLoadedAsPage(n) ==
  /\ n \in BagOf(navs) /\ n.pc = "modal"
  /\ modalContent' = n.page
  /\ activeModal' = n.page
  /\ lastPage' = currentPage
  /\ currentPage' = n.page
  /\ navs' = BagDel(navs, n)
  /\ boot' = bootAfterNav(n.caller, TRUE)
  /\ ev' = Ev(NoNav, DoneEv(n.caller.op, n.caller.req, n.uid # NULL, "modal"))
  /\ UNCHANGED currentUser
  /\ UNCHANGED << history, hidx, sessionToken, appCurrentPage, timers >>
  /\ UNCHANGED << dbVars, envVars, logins, logouts, sweeps, reads >>
  /\ UNCHANGED dataVars

\* openModal: the modal fragment is loaded into #modal-content.
ModalLoaded(n) ==
  /\ n \in BagOf(navs) /\ n.pc = "modal"
  /\ modalContent' = n.page
  /\ activeModal' = n.page
  /\ navs' = BagDel(navs, n)
  /\ boot' = bootAfterNav(n.caller, TRUE)
  /\ ev' = Ev(NoNav, DoneEv(n.caller.op, n.caller.req, n.uid # NULL, "modal"))
  /\ UNCHANGED << currentUser, lastPage, currentPage >>
  /\ UNCHANGED << history, hidx, sessionToken, appCurrentPage, timers >>
  /\ UNCHANGED << dbVars, envVars, logins, logouts, sweeps, reads >>
  /\ UNCHANGED dataVars

\* The timer of closeLoginModal fires: the modal container is emptied.
TimerFired ==
  /\ timers > 0
  /\ timers' = timers - 1
  /\ modalContent' = NULL
  /\ ev' = NoEv
  /\ UNCHANGED << storeVars, history, hidx, sessionToken, appCurrentPage >>
  /\ UNCHANGED << dbVars, envVars, procVars >>
  /\ UNCHANGED dataVars

\* main.js: the popstate listener. The browser has moved to the entry at index
\* i (back or forward) and hands its state to the listener.
Popstate(i) ==
  /\ InFlight < MaxInFlight /\ calls < MaxCalls
  /\ calls' = calls + 1
  /\ i \in 1..Len(history) /\ (i = hidx - 1 \/ i = hidx + 1)
  /\ LET page == history[i].state IN
     IF page # NULL /\ page \in DOMAIN ROUTES /\ ROUTES[page].type = "page"
     THEN navigateTo(page, FALSE, currentUser, appCurrentPage,
                     Caller("popstate", page), navs, i)
     ELSE /\ hidx' = i
          /\ ev' = Ev(NoNav, DoneEv("popstate", NULL, currentUser # NULL, "ignored"))
          /\ UNCHANGED << navs, history, appCurrentPage, activeModal, timers >>
  /\ UNCHANGED << currentUser, lastPage, currentPage, sessionToken, modalContent >>
  /\ UNCHANGED << dbVars, now, nextToken, boot, logins, logouts, sweeps, reads >>
  /\ UNCHANGED dataVars

-----------------------------------------------------------------------------
\* db-service.js: credentials and sessions.

\* PBKDF2-SHA256 of a password under a salt: distinct inputs, distinct keys.
PBKDF2(password, salt) == << password, salt >>

makeToken(n) == ToString(n)

\* verifyLogin: the first user whose username or email is the identifier, if the
\* key derived from the password under the stored salt is the stored hash.
verifyLogin(usernameOrEmail, password) ==
  LET found == { u \in DOMAIN users : users[u].username = usernameOrEmail
                                       \/ users[u].email = usernameOrEmail }
  IN IF found = {} THEN NULL
     ELSE LET first == CHOOSE i \in 1..Len(UserIds) :
                         /\ UserIds[i] \in found
                         /\ \A j \in 1..(i - 1) : UserIds[j] \notin found
              user == UserIds[first]
          IN IF users[user].passwordHash = NULL \/ users[user].passwordSalt = NULL
               THEN NULL
             ELSE IF PBKDF2(password, users[user].passwordSalt) = users[user].passwordHash
               THEN user
             ELSE NULL

SessionRow(id, userId, token, expires_at) ==
  [ id |-> id, user_id |-> userId, token |-> token, expires_at |-> expires_at ]

\* A createSession that deletes no prior session.
deleteNoSessions(userId) == session

\* db.session.where('user_id').equals(userId).delete()
deleteSessionsOf(userId) == { s \in session : s.user_id # userId }

\* db.session.where('token').equals(token): the rows, and first(): the one
\* with the least id.
sessionsByToken(token) == { s \in session : s.token = token }
first(rows) == CHOOSE s \in rows : \A t \in rows : s.id <= t.id

\* An expiry test with the comparison turned around.
expiredReversed(s, date) == s.expires_at > date

\* new Date(session.expires_at) < new Date()
expired(s, date) == s.expires_at < date

\* A loadPage that finds no saved page.
loadPageNone(userId) == NULL

\* loadPage(userId)
loadPage(userId) == users[userId].lastPage

-----------------------------------------------------------------------------
\* db-service.js: getCurrentUser, called by initApp.

Read(pc, token, sid, uid, caller) ==
  [ pc |-> pc, token |-> token, sid |-> sid, uid |-> uid, caller |-> caller ]

\* initApp after getCurrentUser returned user: without a user it removes the
\* token and returns; with one it sets currentUser and awaits loadPage.
bootAfterUser(caller, user) ==
  IF caller # "initApp" THEN boot
  ELSE IF user = NULL THEN [ boot EXCEPT !.pc = "done" ]
  ELSE [ pc |-> "loadPage", uid |-> user ]

\* The session row of the token has been looked up. A missing row: the stored
\* token is removed and null returned. An expired row: its delete is awaited.
\* A live row: db.users.get(session.user_id) is awaited.
SessionLookedUp(r) ==
  /\ r \in BagOf(reads) /\ r.pc = "lookup"
  /\ LET rows == sessionsByToken(r.token)
         s == first(rows)
     IN
     IF rows = {}
     THEN /\ sessionToken' = NULL
          /\ reads' = BagDel(reads, r)
          /\ boot' = bootAfterUser(r.caller, NULL)
          /\ ev' = Ev(NoNav, DoneEv("getCurrentUser", r.token, FALSE, NULL))
     ELSE /\ reads' = BagAdd(BagDel(reads, r),
                        IF expired(s, now)
                        THEN [ r EXCEPT !.pc = "delete", !.sid = s.id ]
                        ELSE [ r EXCEPT !.pc = "user", !.sid = s.id, !.uid = s.user_id ])
          /\ ev' = NoEv
          /\ UNCHANGED << sessionToken, boot >>
  /\ UNCHANGED << storeVars, history, hidx, appCurrentPage, modalContent, timers >>
  /\ UNCHANGED << dbVars, envVars, navs, logins, logouts, sweeps >>
  /\ UNCHANGED dataVars

\* db.session.delete(session.id) of the expired row completes: the stored
\* token is removed and null returned.
ExpiredSessionDeleted(r) ==
  /\ r \in BagOf(reads) /\ r.pc = "delete"
  /\ session' = { s \in session : s.id # r.sid }
  /\ sessionToken' = NULL
  /\ reads' = BagDel(reads, r)
  /\ boot' = bootAfterUser(r.caller, NULL)
  /\ ev' = Ev(NoNav, DoneEv("getCurrentUser", r.token, FALSE, NULL))
  /\ UNCHANGED << storeVars, history, hidx, appCurrentPage, modalContent, timers >>
  /\ UNCHANGED << users, nextSessionId, envVars, navs, logins, logouts, sweeps >>
  /\ UNCHANGED dataVars

\* db.users.get(session.user_id) has returned: the user is returned.
UserFetched(r) ==
  /\ r \in BagOf(reads) /\ r.pc = "user"
  /\ reads' = BagDel(reads, r)
  /\ boot' = bootAfterUser(r.caller, r.uid)
  /\ currentUser' = IF r.caller = "initApp" THEN r.uid ELSE currentUser
  /\ ev' = Ev(NoNav, DoneEv("getCurrentUser", r.token, FALSE, r.uid))
  /\ UNCHANGED << lastPage, currentPage, activeModal, browserVars >>
  /\ UNCHANGED << dbVars, envVars, navs, logins, logouts, sweeps >>
  /\ UNCHANGED dataVars

-----------------------------------------------------------------------------
\* app.js: initApp.

\* _buildFullPath(relativePath): BASE without its trailing "/", then the
\* relative path without its leading "/".
RECURSIVE stripTrailing(_)
stripTrailing(p) ==
  IF p # << >> /\ p[Len(p)] = "/" THEN stripTrailing(SubSeq(p, 1, Len(p) - 1)) ELSE p

RECURSIVE stripLeading(_)
stripLeading(p) == IF p # << >> /\ p[1] = "/" THEN stripLeading(Tail(p)) ELSE p

buildFullPath(relativePath) ==
  LET base == stripTrailing(BASE)
      clean == stripLeading(relativePath)
  IN IF clean # << >> THEN base \o << "/" >> \o clean
     ELSE IF base # << >> THEN base ELSE << "/" >>

\* getPageFromUrl(): the page route whose full path is location.pathname, else
\* landing.
getPageFromUrl(i) ==
  LET path == normalizePath(pathname(i))
      hits == { k \in DOMAIN ROUTES :
                  /\ ROUTES[k].type = "page"
                  /\ path = normalizePath(buildFullPath(ROUTES[k].path)) }
  IN IF hits = {} THEN PAGES.LANDING ELSE CHOOSE k \in hits : TRUE

\* initApp: the page of the URL is rendered with replaceState.
InitAppStarted ==
  /\ boot.pc = "start"
  /\ LET requestedPage == getPageFromUrl(hidx) IN
     /\ navigateTo(requestedPage, FALSE, currentUser, appCurrentPage,
                   Caller("initApp", "first"), navs, hidx)
     /\ boot' = [ boot EXCEPT !.pc =
                    IF suspends(requestedPage, FALSE, currentUser) THEN "nav"
                    ELSE IF ev'.done.res = "same" THEN "restore" ELSE "fallback" ]
  /\ UNCHANGED << currentUser, lastPage, currentPage, sessionToken, modalContent >>
  /\ UNCHANGED << dbVars, envVars, logins, logouts, sweeps, reads >>
  /\ UNCHANGED dataVars

\* The catch of the first navigateTo: landing is rendered instead.
InitAppFellBack ==
  /\ boot.pc = "fallback"
  /\ navigateTo(PAGES.LANDING, FALSE, currentUser, appCurrentPage,
                Caller("initApp", "fallback"), navs, hidx)
  /\ boot' = [ boot EXCEPT !.pc =
                 IF suspends(PAGES.LANDING, FALSE, currentUser) THEN "nav"
                 ELSE IF ev'.done.res = "same" THEN "restore" ELSE "failed" ]
  /\ UNCHANGED << currentUser, lastPage, currentPage, sessionToken, modalContent >>
  /\ UNCHANGED << dbVars, envVars, logins, logouts, sweeps, reads >>
  /\ UNCHANGED dataVars

\* The session restore: without a stored token initApp returns; with one it
\* awaits getCurrentUser, which reads the token and awaits the session lookup.
InitAppRestoring ==
  /\ boot.pc = "restore"
  /\ IF sessionToken = NULL
     THEN /\ boot' = [ boot EXCEPT !.pc = "done" ]
          /\ UNCHANGED reads
     ELSE /\ boot' = [ boot EXCEPT !.pc = "user" ]
          /\ reads' = BagAdd(reads, Read("lookup", sessionToken, 0, NULL, "initApp"))
  /\ ev' = NoEv
  /\ UNCHANGED << storeVars, browserVars, dbVars, envVars >>
  /\ UNCHANGED << navs, logins, logouts, sweeps >>
  /\ UNCHANGED dataVars

\* A session restore that navigates with the default updateHistory.
InitAppNavigatedPushing ==
  /\ boot.pc = "loadPage"
  /\ LET saved == loadPage(boot.uid)
         targetPage == IF saved # NULL /\ saved \in DOMAIN ROUTES
                            /\ ROUTES[saved].type = "page"
                       THEN saved ELSE PAGES.DASHBOARD
     IN /\ navigateTo(targetPage, TRUE, currentUser, appCurrentPage,
                      Caller("initApp", "restore"), navs, hidx)
        /\ boot' = [ boot EXCEPT !.pc =
                       IF suspends(targetPage, TRUE, currentUser) THEN "nav" ELSE "done" ]
        /\ sessionToken' = IF ~ suspends(targetPage, TRUE, currentUser)
                                /\ ev'.done.res = "RangeError"
                           THEN NULL ELSE sessionToken
  /\ UNCHANGED << currentUser, lastPage, currentPage, modalContent >>
  /\ UNCHANGED << dbVars, envVars, logins, logouts, sweeps, reads >>
  /\ UNCHANGED dataVars

\* loadPage has returned: the saved page if it is a page route, else the
\* dashboard, is rendered with replaceState; a failure removes the token.
InitAppNavigated ==
  /\ boot.pc = "loadPage"
  /\ LET saved == loadPage(boot.uid)
         targetPage == IF saved # NULL /\ saved \in DOMAIN ROUTES
                            /\ ROUTES[saved].type = "page"
                       THEN saved ELSE PAGES.DASHBOARD
     IN /\ navigateTo(targetPage, FALSE, currentUser, appCurrentPage,
                      Caller("initApp", "restore"), navs, hidx)
        /\ boot' = [ boot EXCEPT !.pc =
                       IF suspends(targetPage, FALSE, currentUser) THEN "nav" ELSE "done" ]
        /\ sessionToken' = IF ~ suspends(targetPage, FALSE, currentUser)
                                /\ ev'.done.res = "RangeError"
                           THEN NULL ELSE sessionToken
  /\ UNCHANGED << currentUser, lastPage, currentPage, modalContent >>
  /\ UNCHANGED << dbVars, envVars, logins, logouts, sweeps, reads >>
  /\ UNCHANGED dataVars

-----------------------------------------------------------------------------
\* app.js: login, with createSession of db-service.js.

\* A suspended login: at "delete" and "add" inside createSession, at "loadPage"
\* after the token is stored. solo and prior are observations: whether no other
\* issuance for the user has been in flight since the call, and the tokens of
\* the user's session rows at the call.
Login(pc, uid, token, expires_at, solo, prior) ==
  [ pc |-> pc, uid |-> uid, token |-> token, expires_at |-> expires_at,
    solo |-> solo, prior |-> prior ]

issuing(l, uid) == l.uid = uid /\ l.pc \in { "delete", "add" }

\* The bag with every issuance for uid marked as overlapped.
overlapped(bag, uid) ==
  LET f(l) == IF issuing(l, uid) THEN [ l EXCEPT !.solo = FALSE ] ELSE l
      count(m) == BagSize([ l \in { k \in DOMAIN bag : f(k) = m } |-> bag[l] ])
  IN [ m \in { f(l) : l \in DOMAIN bag } |-> count(m) ]

\* A login that signs the visitor out when the credentials are rejected.
LoginCallSigningOut(username, password, rememberMe) ==
  /\ MayCall /\ nextToken <= MaxTokens
  /\ calls' = calls + 1
  /\ LET user == verifyLogin(username, password)
         expiresIn == IF rememberMe THEN SESSION_EXPIRY_LONG ELSE SESSION_EXPIRY_SHORT
     IN IF user = NULL
        THEN /\ ev' = Ev(NoNav, DoneEv("login", << username, password >>,
                                       currentUser # NULL, "false"))
             /\ sessionToken' = NULL /\ currentUser' = NULL
             /\ UNCHANGED << logins, nextToken >>
        ELSE /\ logins' = BagAdd(overlapped(logins, user),
                            Login("delete", user, makeToken(nextToken), now + expiresIn,
                                  \A l \in BagOf(logins) : ~ issuing(l, user),
                                  { x.token : x \in { y \in session : y.user_id = user } }))
             /\ nextToken' = nextToken + 1
             /\ ev' = NoEv
             /\ UNCHANGED << sessionToken, currentUser >>
  /\ UNCHANGED << lastPage, currentPage, activeModal, dbVars, now >>
  /\ UNCHANGED << history, hidx, appCurrentPage, modalContent, timers >>
  /\ UNCHANGED << boot, navs, logouts, sweeps, reads >>
  /\ UNCHANGED dataVars

\* login({username, password, rememberMe}) up to the first await of
\* createSession: verifyLogin has answered, the token and the expiry are
\* computed and the delete of the user's sessions is awaited. With rejected
\* credentials login alerts and returns false.
loginStarted(username, password, rememberMe) ==
  /\ calls' = calls + 1
  /\ LET user == verifyLogin(username, password)
         expiresIn == IF rememberMe THEN SESSION_EXPIRY_LONG ELSE SESSION_EXPIRY_SHORT
     IN IF user = NULL
        THEN /\ ev' = Ev(NoNav, DoneEv("login", << username, password >>,
                                       currentUser # NULL, "false"))
             /\ UNCHANGED << logins, nextToken >>
        ELSE /\ logins' = BagAdd(overlapped(logins, user),
                            Login("delete", user, makeToken(nextToken), now + expiresIn,
                                  \A l \in BagOf(logins) : ~ issuing(l, user),
                                  { x.token : x \in { y \in session : y.user_id = user } }))
             /\ nextToken' = nextToken + 1
             /\ ev' = NoEv
  /\ UNCHANGED << storeVars, browserVars, dbVars, now >>
  /\ UNCHANGED << boot, navs, logouts, sweeps, reads >>
  /\ UNCHANGED dataVars

\* login called by the visitor once initApp has returned.
LoginCall(username, password, rememberMe) ==
  /\ MayCall /\ nextToken <= MaxTokens
  /\ loginStarted(username, password, rememberMe)

\* login called while initApp is still running: the store is registered and
\* Alpine started before initApp is awaited (main.js 180-183), and a second tab
\* shares the session table and the stored token.
LoginCallEarly(username, password, rememberMe) ==
  /\ boot.pc \notin { "done", "failed" }
  /\ InFlight < MaxInFlight /\ calls < MaxCalls /\ nextToken <= MaxTokens
  /\ loginStarted(username, password, rememberMe)

\* createSession: the delete of the user's sessions completes, the add is awaited.
LoginSessionsDeleted(l) ==
  /\ l \in BagOf(logins) /\ l.pc = "delete"
  /\ session' = deleteSessionsOf(l.uid)
  /\ logins' = BagAdd(BagDel(logins, l), [ l EXCEPT !.pc = "add" ])
  /\ ev' = NoEv
  /\ UNCHANGED << storeVars, browserVars, users, nextSessionId, envVars >>
  /\ UNCHANGED << boot, navs, logouts, sweeps, reads >>
  /\ UNCHANGED dataVars

\* createSession: the add completes and the token is returned; login stores
\* it, sets currentUser and awaits loadPage.
LoginSessionAdded(l) ==
  /\ l \in BagOf(logins) /\ l.pc = "add"
  /\ session' = session \cup { SessionRow(nextSessionId, l.uid, l.token, l.expires_at) }
  /\ nextSessionId' = nextSessionId + 1
  /\ sessionToken' = l.token
  /\ currentUser' = l.uid
  /\ logins' = BagAdd(BagDel(logins, l), [ l EXCEPT !.pc = "loadPage" ])
  /\ ev' = Ev(NoNav, DoneEv("createSession", l.uid, l.solo, l.token)
                       @@ [ prior |-> l.prior ])
  /\ UNCHANGED << lastPage, currentPage, activeModal, users, envVars >>
  /\ UNCHANGED << history, hidx, appCurrentPage, modalContent, timers >>
  /\ UNCHANGED << boot, navs, logouts, sweeps, reads >>
  /\ UNCHANGED dataVars

\* loadPage has answered: login navigates to the saved page or the dashboard.
LoginNavigate(l) ==
  /\ l \in BagOf(logins) /\ l.pc = "loadPage"
  /\ LET saved == loadPage(l.uid) IN
     navigateTo(IF saved # NULL THEN saved ELSE PAGES.DASHBOARD, TRUE, currentUser,
                appCurrentPage, Caller("login", l.uid), navs, hidx)
  /\ logins' = BagDel(logins, l)
  /\ UNCHANGED << currentUser, lastPage, currentPage, sessionToken, modalContent >>
  /\ UNCHANGED << dbVars, envVars, boot, logouts, sweeps, reads >>
  /\ UNCHANGED dataVars

-----------------------------------------------------------------------------
\* db-util.js and db-service.js: the rows of db.categories and db.transactions.

\* A color is a string, kept as its characters.
Hex ==
  { "0", "1", "2", "3", "4", "5", "6", "7", "8", "9",
    "a", "b", "c", "d", "e", "f", "A", "B", "C", "D", "E", "F" }

\* /^#[0-9a-fA-F]{6}$/.test(color)
isHexColor(color) ==
  /\ Len(color) = 7
  /\ color[1] = "#"
  /\ \A i \in 2..7 : color[i] \in Hex

GRAY == << "#", "9", "9", "9", "9", "9", "9" >>

CategoryRow(id, userId, name, type, color, predefined, deleted_at) ==
  [ id |-> id, user_id |-> userId, name |-> name, type |-> type, color |-> color,
    predefined |-> predefined, deleted_at |-> deleted_at ]

\* The table after seedPredefinedCategories: the predefined categories belong
\* to no user.
Seeded ==
  { CategoryRow(1, NULL, "Salary", "income",
                << "#", "4", "c", "a", "f", "5", "0" >>, TRUE, NULL),
    CategoryRow(2, NULL, "Groceries", "expense",
                << "#", "f", "f", "9", "8", "0", "0" >>, TRUE, NULL) }

\* A delete that passes over the soft-deleted categories of the user.
deleteLiveCategoriesOf(userId) ==
  { c \in categories : c.user_id # userId \/ c.deleted_at # NULL }

\* db.categories.where('user_id').equals(userId).delete()
deleteCategoriesOf(userId) == { c \in categories : c.user_id # userId }

\* A delete that spares the soft-deleted transactions.
deleteLiveTransactionsOf(userId) ==
  { t \in transactions : t.user_id # userId \/ t.deleted_at # NULL }

\* db.transactions.where('user_id').equals(userId).delete()
deleteTransactionsOf(userId) == { t \in transactions : t.user_id # userId }

\* A getCategories that asks for no owner.
getCategoriesOfAll(userId) == { c \in categories : c.deleted_at = NULL }

\* getCategories(userId): the rows that are not soft-deleted and are
\* predefined or the user's.
getCategories(userId) ==
  { c \in categories : c.deleted_at = NULL /\ (c.predefined = TRUE \/ c.user_id = userId) }

\* { ...defaults, ...data }: the fields of data override the defaults.
spread(defaults, data) == data @@ defaults

\* The record createCategory adds: the type and the color are validated, the
\* name defaults, and then the fields of data are spread over the record.
createCategoryRecord(id, userId, data) ==
  LET type == IF "type" \in DOMAIN data /\ data.type \in { "income", "expense" }
                THEN data.type ELSE "expense"
      color == IF "color" \in DOMAIN data /\ isHexColor(data.color)
                 THEN data.color ELSE GRAY
      name == IF "name" \in DOMAIN data THEN data.name ELSE "Untitled"
  IN spread(CategoryRow(id, userId, name, type, color, FALSE, NULL), data)

\* The record updateCategory puts: for a predefined row the flag, the type and
\* the color of data are set to the row's, then data is spread over the row.
updateCategoryRecord(existing, data) ==
  LET kept == IF existing.predefined = TRUE
                THEN [ predefined |-> existing.predefined, type |-> existing.type,
                       color |-> existing.color ] @@ data
              ELSE data
  IN spread(existing, kept)

\* db.categories.put(record): the record takes the place of the row with its id.
putCategory(record) == { c \in categories : c.id # record.id } \cup { record }

-----------------------------------------------------------------------------
\* app.js: logout, with clearSession and clearUserData of db-service.js.

\* seq is an observation: the number of the call among the user's operations
\* when nothing else was in flight at the call, else 0.
Logout(pc, uid, keepData, seq) ==
  [ pc |-> pc, uid |-> uid, keepData |-> keepData, seq |-> seq ]

\* What the navigateTo of a logout is told apart by.
LogoutReq(l) == [ uid |-> l.uid, keepData |-> l.keepData, seq |-> l.seq ]

\* The end of logout: currentUser is cleared and navigateTo(landing) is called
\* without being awaited. acp is what sessionStorage holds at that point.
logoutEnd(l, acp) ==
  /\ currentUser' = NULL
  /\ navigateTo(PAGES.LANDING, TRUE, NULL, acp, Caller("logout", LogoutReq(l)), navs, hidx)
  /\ logouts' = BagDel(logouts, l)

\* logout({keepData}) up to the await of clearSession; without a user it returns.
LogoutCall(keepData) ==
  /\ MayCall
  /\ calls' = calls + 1
  /\ IF currentUser = NULL
     THEN /\ ev' = Ev(NoNav, DoneEv("logout", NULL, FALSE, "noop"))
          /\ UNCHANGED logouts
     ELSE /\ logouts' = BagAdd(logouts, Logout("clear", currentUser, keepData,
                                            IF InFlight = 0 THEN calls + 1 ELSE 0))
          /\ ev' = NoEv
  /\ UNCHANGED << storeVars, browserVars, dbVars, now, nextToken >>
  /\ UNCHANGED << boot, navs, logins, sweeps, reads >>
  /\ UNCHANGED dataVars

\* clearSession: the delete of the user's sessions completes and the stored
\* token is removed; logout removes both storage keys. With keepData it ends;
\* without, this.currentUser.id is read again (a TypeError if the user has been
\* cleared meanwhile) and clearUserData is awaited.
LogoutSessionsDeleted(l) ==
  /\ l \in BagOf(logouts) /\ l.pc = "clear"
  /\ session' = deleteSessionsOf(l.uid)
  /\ sessionToken' = NULL
  /\ IF l.keepData
     THEN logoutEnd(l, NULL)
     ELSE /\ appCurrentPage' = NULL
          /\ IF currentUser = NULL
             THEN /\ logouts' = BagDel(logouts, l)
                  /\ ev' = Ev(NoNav, DoneEv("logout", l.uid, FALSE, "TypeError"))
             ELSE /\ logouts' = BagAdd(BagDel(logouts, l),
                                  [ l EXCEPT !.pc = "wipe", !.uid = currentUser ])
                  /\ ev' = NoEv
          /\ UNCHANGED << currentUser, navs, history, hidx, activeModal, timers >>
  /\ UNCHANGED << lastPage, currentPage, modalContent, users, nextSessionId >>
  /\ UNCHANGED << envVars, boot, logins, sweeps, reads >>
  /\ UNCHANGED dataVars

\* clearUserData: the user's categories and transactions are deleted and the
\* lastPage is reset; logout ends.
LogoutUserDataCleared(l) ==
  /\ l \in BagOf(logouts) /\ l.pc = "wipe"
  /\ categories' = deleteCategoriesOf(l.uid)
  /\ transactions' = deleteTransactionsOf(l.uid)
  /\ users' = [ users EXCEPT ![l.uid].lastPage = NULL ]
  /\ UNCHANGED << nextCategoryId, nextTransactionId >>
  /\ logoutEnd(l, appCurrentPage)
  /\ UNCHANGED << lastPage, currentPage, sessionToken, modalContent >>
  /\ UNCHANGED << session, nextSessionId, envVars, boot, logins, sweeps, reads >>

-----------------------------------------------------------------------------
\* db-service.js: cleanupExpiredSessions, run by startBackgroundJobs at the
\* start, every 15 minutes and when the tab becomes visible.

\* A sweep query that also finds the sessions expiring at the date it took.
expiredAtUpTo(date) == { s \in session : s.expires_at <= date }

\* db.session.where('expires_at').below(now): the rows that expire before date.
expiredAt(date) == { s \in session : s.expires_at < date }

\* A suspended sweep: at "query" with the date it took, at "delete" with the
\* rows the query found.
Sweep(pc, date, found) == [ pc |-> pc, date |-> date, found |-> found ]

SweepCall ==
  /\ InFlight < MaxInFlight /\ calls < MaxCalls
  /\ calls' = calls + 1
  /\ sweeps' = BagAdd(sweeps, Sweep("query", now, {}))
  /\ ev' = NoEv
  /\ UNCHANGED << storeVars, browserVars, dbVars, now, nextToken >>
  /\ UNCHANGED << boot, navs, logins, logouts, reads >>
  /\ UNCHANGED dataVars

\* db.session.where('expires_at').below(now).toArray() has answered: with no
\* row the sweep returns, else the bulkDelete of the rows' ids is awaited.
SweepQueried(w) ==
  /\ w \in BagOf(sweeps) /\ w.pc = "query"
  /\ LET found == expiredAt(w.date) IN
     IF found = {}
     THEN /\ sweeps' = BagDel(sweeps, w)
          /\ ev' = Ev(NoNav, DoneEv("cleanupExpiredSessions", w.date, FALSE, "none"))
     ELSE /\ sweeps' = BagAdd(BagDel(sweeps, w),
                         [ w EXCEPT !.pc = "delete", !.found = found ])
          /\ ev' = NoEv
  /\ UNCHANGED << storeVars, browserVars, dbVars, envVars >>
  /\ UNCHANGED << boot, navs, logins, logouts, reads >>
  /\ UNCHANGED dataVars

\* A bulkDelete that removes the rows from the oldest of the given ids on.
bulkDeleteFrom(ids) == { s \in session : \A i \in ids : s.id < i }

\* db.session.bulkDelete(ids): the rows with these ids are removed; an id with
\* no row is passed over.
bulkDelete(ids) == { s \in session : s.id \notin ids }

\* The bulkDelete completes; the stored token is removed if a found row has it.
\* gone observes the found rows that were no longer in the table.
SweepDeleted(w) ==
  /\ w \in BagOf(sweeps) /\ w.pc = "delete"
  /\ session' = bulkDelete({ x.id : x \in w.found })
  /\ sessionToken' = IF sessionToken # NULL
                          /\ \E x \in w.found : x.token = sessionToken
                     THEN NULL ELSE sessionToken
  /\ sweeps' = BagDel(sweeps, w)
  /\ ev' = Ev(NoNav, DoneEv("cleanupExpiredSessions", w.date, FALSE, "deleted")
                       @@ [ found |-> w.found, gone |-> w.found \ session ])
  /\ UNCHANGED << storeVars, history, hidx, appCurrentPage, modalContent, timers >>
  /\ UNCHANGED << users, nextSessionId, envVars >>
  /\ UNCHANGED << boot, navs, logins, logouts, reads >>
  /\ UNCHANGED dataVars

\* A day passes.
Tick ==
  /\ now < MaxTime
  /\ now' = now + 1
  /\ ev' = NoEv
  /\ UNCHANGED << storeVars, browserVars, dbVars, nextToken, calls, procVars >>
  /\ UNCHANGED dataVars

-----------------------------------------------------------------------------
\* The state when the document has loaded (main.js), before initApp.

\* A db.users record as saveUser writes it, with the page persistPage saved.
User(username, email, password, salt, page) ==
  [ username |-> username, email |-> email, passwordHash |-> PBKDF2(password, salt),
    passwordSalt |-> salt, lastPage |-> page ]

\* The registered users; the first has a saved page or none.
InitUsers ==
  { ( UserIds[1] :> User("ann", "ann@x.org", "pw1", "s1", page) ) @@
    ( UserIds[2] :> User("bob", "bob@x.org", "pw2", "s2", NULL) )
      : page \in { NULL, PAGES.TEST } }

\* What earlier visits left behind: the session table and the stored token.
\* Nothing; a session of the first user that is live, its token stored; the
\* same, expired; a stored token whose row is gone while another user's row
\* lives.
Stored(rows, token) == [ rows |-> rows, token |-> token ]
LiveStored == Stored({ SessionRow(1, UserIds[1], "t1", 2) }, "t1")
InitStored ==
  { Stored({}, NULL), LiveStored }
InitStoredSession ==
  { Stored({}, NULL), LiveStored,
    Stored({ SessionRow(1, UserIds[1], "t1", 0) }, "t1"),
    Stored({ SessionRow(1, UserIds[1], "t1", 0), SessionRow(2, UserIds[2], "t2", 2) }, "t1"),
    Stored({ SessionRow(2, UserIds[2], "t2", 2) }, "t1") }

\* The URLs the document may have been loaded from.
InitPaths == { BASE, BASE \o << "dashboard" >>, BASE \o << "test" >> }

InitStore(us, stored, paths) ==
  /\ currentUser = NULL /\ lastPage = NULL /\ currentPage = "" /\ activeModal = NULL
  /\ history \in { << [ state |-> NULL, path |-> p ] >> : p \in paths }
  /\ hidx = 1
  /\ \E st \in stored : session = st.rows /\ sessionToken = st.token
  /\ appCurrentPage = NULL /\ modalContent = NULL /\ timers = 0
  /\ users \in us
  /\ nextSessionId = 3
  /\ now = 1 /\ nextToken = 1 /\ calls = 0
  /\ boot = [ pc |-> "start", uid |-> NULL ]
  /\ navs = EmptyBag /\ logins = EmptyBag /\ logouts = EmptyBag
  /\ sweeps = EmptyBag /\ reads = EmptyBag
  /\ ev = NoEv

\* The tables as main.js leaves them on a first visit: the predefined
\* categories are seeded, no transaction is stored.
InitWith(us, stored, paths) ==
  /\ InitStore(us, stored, paths)
  /\ categories = Seeded /\ nextCategoryId = 3
  /\ transactions = {} /\ nextTransactionId = 1

Init == InitWith(InitUsers, InitStored, InitPaths)
InitSession == InitWith(InitUsers, InitStoredSession, { BASE })

-----------------------------------------------------------------------------
\* Navigation and authentication: the clock stands still, so no session
\* expires and the sweep finds nothing.
Next ==
  \/ InitAppStarted
  \/ InitAppFellBack
  \/ InitAppRestoring
  \/ InitAppNavigated
  \/ \E r \in BagOf(reads) : SessionLookedUp(r)
  \/ \E r \in BagOf(reads) : UserFetched(r)
  \/ \E key \in PageKeys, uh \in BOOLEAN : NavCall(key, uh)
  \/ \E n \in BagOf(navs) : NavPersisted(n)
  \/ \E n \in BagOf(navs) : NavLoaded(n)
  \/ \E n \in BagOf(navs) : NavLoadFailed(n)
  \/ \E n \in BagOf(navs) : ModalLoaded(n)
  \/ TimerFired
  \/ \E i \in 1..MaxHistory : Popstate(i)
  \/ \E username \in Identifiers, password \in Passwords :
       LoginCall(username, password, FALSE)
  \/ \E l \in BagOf(logins) : LoginSessionsDeleted(l)
  \/ \E l \in BagOf(logins) : LoginSessionAdded(l)
  \/ \E l \in BagOf(logins) : LoginNavigate(l)
  \/ \E keepData \in BOOLEAN : LogoutCall(keepData)
  \/ \E l \in BagOf(logouts) : LogoutSessionsDeleted(l)
  \/ \E l \in BagOf(logouts) : LogoutUserDataCleared(l)

Spec == Init /\ [][Next]_vars

\* The session store: the clock advances and the sweep runs, from the start of
\* the document on; fragments load, and the user logs in and out.
NextSession ==
  \/ InitAppStarted
  \/ InitAppRestoring
  \/ InitAppNavigated
  \/ \E r \in BagOf(reads) : SessionLookedUp(r)
  \/ \E r \in BagOf(reads) : ExpiredSessionDeleted(r)
  \/ \E r \in BagOf(reads) : UserFetched(r)
  \/ \E n \in BagOf(navs) : NavPersisted(n)
  \/ \E n \in BagOf(navs) : NavLoaded(n)
  \/ \E username \in Identifiers, password \in Passwords, rememberMe \in BOOLEAN :
       LoginCall(username, password, rememberMe)
  \/ \E l \in BagOf(logins) : LoginSessionsDeleted(l)
  \/ \E l \in BagOf(logins) : LoginSessionAdded(l)
  \/ \E l \in BagOf(logins) : LoginNavigate(l)
  \/ LogoutCall(TRUE)
  \/ \E l \in BagOf(logouts) : LogoutSessionsDeleted(l)
  \/ SweepCall
  \/ \E w \in BagOf(sweeps) : SweepQueried(w)
  \/ \E w \in BagOf(sweeps) : SweepDeleted(w)
  \/ Tick

SpecSession == InitSession /\ [][NextSession]_vars

-----------------------------------------------------------------------------
\* db-service.js: saveUser and verifyLogin, called on the database alone.

\* The names and addresses that are registered, the salts that
\* crypto.getRandomValues draws, and a password or none.
SaveNames == { "ann", "bob@x.org" }
SaveEmails == { "", "bob@x.org" }
Salts == { "s1", "s2" }
SavePasswords == Passwords \cup { "" }

\* The record saveUser builds: without a password the hash and the salt are
\* null; the saved page is null as userData carries none.
saveUserRecord(userData, password, salt) ==
  [ username |-> userData.username, email |-> userData.email,
    passwordHash |-> IF password # "" THEN PBKDF2(password, salt) ELSE NULL,
    passwordSalt |-> IF password # "" THEN salt ELSE NULL,
    lastPage |-> NULL ]

\* The id db.users.add gives the next record.
nextUserId == UserIds[Cardinality(DOMAIN users) + 1]

\* saveUser(userData, password): with userData.id the record of that id is
\* updated (none, if there is no such record) and the id returned, else the
\* record is added under a new id.
SaveUser(userData, password, salt) ==
  /\ calls < MaxCalls
  /\ calls' = calls + 1
  /\ userData.id = NULL => Cardinality(DOMAIN users) < Len(UserIds)
  /\ LET record == saveUserRecord(userData, password, salt)
         id == IF userData.id # NULL THEN userData.id ELSE nextUserId
     IN /\ users' = IF userData.id = NULL THEN users @@ (id :> record)
                     ELSE IF id \in DOMAIN users THEN [ users EXCEPT ![id] = record ]
                     ELSE users
        /\ ev' = Ev(NoNav, DoneEv("saveUser", << userData, password >>, FALSE, id))
  /\ UNCHANGED << storeVars, browserVars, session, nextSessionId, now, nextToken >>
  /\ UNCHANGED procVars
  /\ UNCHANGED dataVars

\* verifyLogin(usernameOrEmail, password), called on the database.
VerifyLoginCall(usernameOrEmail, password) ==
  /\ calls < MaxCalls
  /\ calls' = calls + 1
  /\ ev' = Ev(NoNav, DoneEv("verifyLogin", << usernameOrEmail, password >>, FALSE,
                            verifyLogin(usernameOrEmail, password)))
  /\ UNCHANGED << storeVars, browserVars, dbVars, now, nextToken, procVars >>
  /\ UNCHANGED dataVars

\* The database with no user yet, or with the registered users.
InitAccounts ==
  InitWith(InitUsers \cup { << >> }, { Stored({}, NULL) }, { BASE })

NextAccounts ==
  \/ \E id \in { NULL } \cup { UserIds[i] : i \in 1..Len(UserIds) },
        username \in SaveNames, email \in SaveEmails,
        password \in SavePasswords, salt \in Salts :
       SaveUser([ id |-> id, username |-> username, email |-> email ], password, salt)
  \/ \E usernameOrEmail \in Identifiers \cup SaveEmails, password \in SavePasswords :
       VerifyLoginCall(usernameOrEmail, password)

SpecAccounts == InitAccounts /\ [][NextAccounts]_vars

-----------------------------------------------------------------------------
\* db-service.js: the categories, called on the database alone.

BLACK == << "#", "0", "0", "0", "0", "0", "0" >>

\* The time of a soft delete.
DELETED == "2024-02-01T12:00"

\* What callers pass as data to createCategory and to updateCategory.
CreatePayloads ==
  { [ name |-> "Rent" ],
    [ type |-> "income", color |-> BLACK ],
    [ type |-> "transfer" ],
    [ color |-> << "r", "e", "d" >> ],
    [ color |-> << "#", "f", "f", "f" >> ],
    [ predefined |-> TRUE ] }
UpdatePayloads ==
  { [ name |-> "Food" ],
    [ type |-> "income", color |-> BLACK ],
    [ predefined |-> FALSE ],
    [ deleted_at |-> DELETED ],
    [ id |-> 2 ] }

\* The ids updateCategory is called with: the predefined rows, a user's row.
CategoryIds == 1..3

CreateCategory(userId, data) ==
  /\ calls < MaxCalls
  /\ calls' = calls + 1
  /\ categories' = categories \cup { createCategoryRecord(nextCategoryId, userId, data) }
  /\ nextCategoryId' = nextCategoryId + 1
  /\ ev' = Ev(NoNav, DoneEv("createCategory", << userId, data >>, FALSE, nextCategoryId))
  /\ UNCHANGED << storeVars, browserVars, dbVars, now, nextToken, procVars >>
  /\ UNCHANGED << transactions, nextTransactionId >>

\* updateCategory(id, data): without a row of that id it throws.
UpdateCategory(id, data) ==
  /\ calls < MaxCalls
  /\ calls' = calls + 1
  /\ LET rows == { c \in categories : c.id = id } IN
     IF rows = {}
     THEN /\ ev' = Ev(NoNav, DoneEv("updateCategory", << id, data >>, FALSE, "Error"))
          /\ UNCHANGED << categories, nextCategoryId >>
     ELSE LET existing == CHOOSE c \in rows : TRUE
              record == updateCategoryRecord(existing, data)
          IN /\ categories' = putCategory(record)
             /\ nextCategoryId' = IF record.id >= nextCategoryId
                                   THEN record.id + 1 ELSE nextCategoryId
             /\ ev' = Ev(NoNav, DoneEv("updateCategory", << id, data >>, FALSE, id))
  /\ UNCHANGED << storeVars, browserVars, dbVars, now, nextToken, procVars >>
  /\ UNCHANGED << transactions, nextTransactionId >>

GetCategories(userId) ==
  /\ calls < MaxCalls
  /\ calls' = calls + 1
  /\ ev' = Ev(NoNav, DoneEv("getCategories", userId, FALSE, getCategories(userId)))
  /\ UNCHANGED << storeVars, browserVars, dbVars, dataVars, now, nextToken, procVars >>

\* clearUserData(userId): the user's categories and transactions are deleted
\* and the saved page is reset. rows and page observe what the user had.
ClearUserData(userId) ==
  /\ calls < MaxCalls
  /\ calls' = calls + 1
  /\ categories' = deleteCategoriesOf(userId)
  /\ transactions' = deleteTransactionsOf(userId)
  /\ users' = [ users EXCEPT ![userId].lastPage = NULL ]
  /\ ev' = Ev(NoNav, DoneEv("clearUserData", userId, FALSE, "done")
                       @@ [ rows |-> { c \in categories : c.user_id = userId }
                                       \cup { t \in transactions : t.user_id = userId },
                            page |-> users[userId].lastPage ])
  /\ UNCHANGED << storeVars, browserVars, session, nextSessionId >>
  /\ UNCHANGED << nextCategoryId, nextTransactionId, now, nextToken, procVars >>

\* A transaction row; the date is a Date or the string data carried.
TransactionRow(id, userId, date, deleted_at) ==
  [ id |-> id, user_id |-> userId, date |-> date, deleted_at |-> deleted_at ]
DateOf(t) == [ kind |-> "Date", t |-> t ]

\* What earlier visits left in the tables: nothing but the seeded rows, or
\* categories and transactions of both users, some of them soft-deleted.
StoredData(cats, nextCat, txs, nextTx) ==
  [ cats |-> cats, nextCat |-> nextCat, txs |-> txs, nextTx |-> nextTx ]
InitStoredData ==
  { StoredData(Seeded, 3, {}, 1),
    StoredData(Seeded \cup { CategoryRow(3, UserIds[1], "Rent", "expense", GRAY, FALSE, NULL),
                             CategoryRow(4, UserIds[1], "Old", "expense", GRAY, FALSE, DELETED),
                             CategoryRow(5, UserIds[2], "Fees", "income", BLACK, FALSE, NULL) },
               6,
               { TransactionRow(1, UserIds[1], DateOf(2), NULL),
                 TransactionRow(2, UserIds[1], DateOf(3), DELETED),
                 TransactionRow(3, UserIds[2], DateOf(2), NULL) },
               4) }

InitData ==
  /\ InitStore(InitUsers, { Stored({ SessionRow(1, UserIds[1], "t1", 0),
                                     SessionRow(2, UserIds[2], "t2", 2) }, "t1") },
               { BASE })
  /\ \E d \in InitStoredData :
       /\ categories = d.cats /\ nextCategoryId = d.nextCat
       /\ transactions = d.txs /\ nextTransactionId = d.nextTx

NextCategories ==
  \/ \E i \in 1..Len(UserIds), data \in CreatePayloads : CreateCategory(UserIds[i], data)
  \/ \E id \in CategoryIds, data \in UpdatePayloads : UpdateCategory(id, data)
  \/ \E i \in 1..Len(UserIds) : GetCategories(UserIds[i])
  \/ \E i \in 1..Len(UserIds) : ClearUserData(UserIds[i])

SpecCategories == InitData /\ [][NextCategories]_vars

-----------------------------------------------------------------------------
\* db-service.js: updateCategory as the page calls it, with other calls in
\* flight: the get and the put are two requests to the database, each awaited,
\* outside any transaction.

\* A suspended updateCategory: at "get" (await db.categories.get) or at "put"
\* (await db.categories.put) with the record it has built.
Update(pc, id, data, record) ==
  [ pc |-> pc, id |-> id, data |-> data, record |-> record ]

\* updateCategory(id, data) up to the await of the get.
UpdateCategoryCall(id, data) ==
  /\ InFlight < MaxInFlight /\ calls < MaxCalls
  /\ calls' = calls + 1
  /\ reads' = BagAdd(reads, Update("get", id, data, NULL))
  /\ ev' = NoEv
  /\ UNCHANGED << storeVars, browserVars, dbVars, dataVars, now, nextToken >>
  /\ UNCHANGED << boot, navs, logins, logouts, sweeps >>

\* The get has answered: without a row updateCategory throws, else it builds
\* the record from the row it was given and awaits the put.
UpdateCategoryRead(u) ==
  /\ u \in BagOf(reads) /\ u.pc = "get"
  /\ LET rows == { c \in categories : c.id = u.id } IN
     IF rows = {}
     THEN /\ reads' = BagDel(reads, u)
          /\ ev' = Ev(NoNav, DoneEv("updateCategory", << u.id, u.data >>, FALSE, "Error")
                               @@ [ error |-> "Category not found" ])
     ELSE LET existing == CHOOSE c \in rows : TRUE IN
          /\ reads' = BagAdd(BagDel(reads, u),
                             [ u EXCEPT !.pc = "put",
                                        !.record = updateCategoryRecord(existing, u.data) ])
          /\ ev' = NoEv
  /\ UNCHANGED << storeVars, browserVars, dbVars, dataVars, envVars >>
  /\ UNCHANGED << boot, navs, logins, logouts, sweeps >>

\* The put has been done: updateCategory returns the id.
UpdateCategoryPut(u) ==
  /\ u \in BagOf(reads) /\ u.pc = "put"
  /\ categories' = putCategory(u.record)
  /\ nextCategoryId' = IF u.record.id >= nextCategoryId
                        THEN u.record.id + 1 ELSE nextCategoryId
  /\ reads' = BagDel(reads, u)
  /\ ev' = Ev(NoNav, DoneEv("updateCategory", << u.id, u.data >>, FALSE, u.id)
                       @@ [ error |-> NULL ])
  /\ UNCHANGED << storeVars, browserVars, dbVars, envVars >>
  /\ UNCHANGED << transactions, nextTransactionId >>
  /\ UNCHANGED << boot, navs, logins, logouts, sweeps >>

NextUpdates ==
  \/ \E id \in CategoryIds, data \in UpdatePayloads : UpdateCategoryCall(id, data)
  \/ \E u \in BagOf(reads) : UpdateCategoryRead(u)
  \/ \E u \in BagOf(reads) : UpdateCategoryPut(u)

SpecUpdates == InitData /\ [][NextUpdates]_vars

-----------------------------------------------------------------------------
\* db-service.js: the transactions, called on the database alone. A Date is
\* counted in parts of a day; the day of the clock begins at now * DayLen.

\* The string data.date may be, denoting the same instant as DateOf(t), a
\* string that is no date, the empty string, and no date at all.
StringOf(t) == [ kind |-> "string", t |-> t ]
InvalidDate == [ kind |-> "invalid", t |-> 0 ]
EmptyDate == [ kind |-> "empty", t |-> 0 ]
NoDate == [ kind |-> "none", t |-> 0 ]

\* new Date(0) and new Date(8640000000000000)
MinDate == 0
MaxDate == 99

\* date.setHours(0, 0, 0, 0) and date.setHours(23, 59, 59, 999)
startOfDay(d) == (d.t \div DayLen) * DayLen
endOfDay(d) == (d.t \div DayLen) * DayLen + DayLen - 1

\* The key of a row in the index [user_id+date], within one user: IndexedDB
\* orders every string after every Date.
dateKey(row) ==
  IF row.date.kind = "Date" THEN row.date.t ELSE MaxDate + 1 + row.date.t

\* A filter that lets the soft-deleted rows through.
anyRow(t) == TRUE

\* t => !t.deleted_at
undeleted(t) == t.deleted_at = NULL

\* collection.reverse().toArray(): the rows by descending key, and by
\* descending id under one key.
RECURSIVE newestFirst(_)
newestFirst(rows) ==
  IF rows = {} THEN << >>
  ELSE LET top == CHOOSE r \in rows : \A q \in rows :
                    \/ dateKey(q) < dateKey(r)
                    \/ dateKey(q) = dateKey(r) /\ q.id <= r.id
       IN << top >> \o newestFirst(rows \ { top })

\* where('[user_id+date]').between([userId, s], [userId, e], true, true):
\* only a Date lies between two Dates.
between(userId, s, e) ==
  { t \in transactions : /\ t.user_id = userId
                          /\ t.date.kind = "Date"
                          /\ s <= t.date.t /\ t.date.t <= e }

\* where('[user_id+date]').startsWith([userId]), if the library takes the
\* array as a prefix of the key.
startsWith(userId) == { t \in transactions : t.user_id = userId }

\* The record createTransaction adds: the date is the parsed data.date or,
\* when data.date is missing or falsy, the present, and then the fields of data
\* are spread over the record.
createTransactionRecord(id, userId, data) ==
  LET date == IF "date" \in DOMAIN data /\ data.date.kind # "empty"
                THEN DateOf(data.date.t) ELSE DateOf(now * DayLen)
  IN spread(TransactionRow(id, userId, date, NULL), data)

\* What callers pass as data to createTransaction, and as bounds to
\* getTransactions.
TransactionPayloads ==
  { [ deleted_at |-> NULL ], [ deleted_at |-> DELETED ],
    [ date |-> DateOf(2) ], [ date |-> DateOf(5) ],
    [ date |-> StringOf(2) ], [ date |-> StringOf(4) ],
    [ date |-> DateOf(3), deleted_at |-> DELETED ],
    [ date |-> InvalidDate ], [ date |-> EmptyDate ] }
Bounds == { NoDate, DateOf(2), DateOf(3), DateOf(4) }

\* createTransaction(userId, data): a data.date that is no date throws.
CreateTransaction(userId, data) ==
  /\ calls < MaxCalls
  /\ calls' = calls + 1
  /\ IF "date" \in DOMAIN data /\ data.date.kind = "invalid"
     THEN /\ ev' = Ev(NoNav, DoneEv("createTransaction", << userId, data >>, FALSE, "Error")
                            @@ [ error |-> "Invalid date" ])
          /\ UNCHANGED << transactions, nextTransactionId >>
     ELSE /\ transactions' = transactions \cup
                               { createTransactionRecord(nextTransactionId, userId, data) }
          /\ nextTransactionId' = nextTransactionId + 1
          /\ ev' = Ev(NoNav, DoneEv("createTransaction", << userId, data >>, FALSE,
                                    nextTransactionId) @@ [ error |-> NULL ])
  /\ UNCHANGED << storeVars, browserVars, dbVars, now, nextToken, procVars >>
  /\ UNCHANGED << categories, nextCategoryId >>

\* getTransactions(userId, startDate, endDate) with a bound: the rows between
\* the beginning of the start's day and the end of the end's day.
GetTransactionsBetween(userId, startDate, endDate) ==
  /\ calls < MaxCalls
  /\ startDate # NoDate \/ endDate # NoDate
  /\ calls' = calls + 1
  /\ LET s == IF startDate # NoDate THEN startOfDay(startDate) ELSE MinDate
         e == IF endDate # NoDate THEN endOfDay(endDate) ELSE MaxDate
         rows == { t \in between(userId, s, e) : undeleted(t) }
     IN ev' = Ev(NoNav, DoneEv("getTransactions", << userId, startDate, endDate >>,
                              FALSE, newestFirst(rows)))
  /\ UNCHANGED << storeVars, browserVars, dbVars, dataVars, now, nextToken, procVars >>

\* getTransactions(userId) without a bound: startsWith is given an array, not
\* a string; the library rejects it, which the catch answers with [], or
\* takes it as a prefix.
GetTransactionsAll(userId) ==
  /\ calls < MaxCalls
  /\ calls' = calls + 1
  /\ \E rejected \in BOOLEAN :
       LET rows == IF rejected THEN {} ELSE { t \in startsWith(userId) : undeleted(t) }
       IN ev' = Ev(NoNav, DoneEv("getTransactions", << userId, NoDate, NoDate >>,
                                FALSE, newestFirst(rows)))
  /\ UNCHANGED << storeVars, browserVars, dbVars, dataVars, now, nextToken, procVars >>

NextTransactions ==
  \/ \E i \in 1..Len(UserIds), data \in TransactionPayloads :
       CreateTransaction(UserIds[i], data)
  \/ \E i \in 1..Len(UserIds), startDate \in Bounds, endDate \in Bounds :
       GetTransactionsBetween(UserIds[i], startDate, endDate)
  \/ \E i \in 1..Len(UserIds) : GetTransactionsAll(UserIds[i])

SpecTransactions == InitData /\ [][NextTransactions]_vars

-----------------------------------------------------------------------------
\* The claims.

\* The page is accessible to the visitor: an anonymous one is on no
\* auth-required page, an authenticated one on no auth-restricted page.
Accessible ==
  /\ currentUser = NULL => currentPage \notin AUTH.required
  /\ currentUser # NULL => currentPage \notin AUTH.restricted

\* C1: in every reachable state with no operation in flight, currentPage is
\* accessible to the current visitor.
C1_AuthGuardInvariant == Quiet => Accessible

\* A navigateTo(key) call the page made with nothing else in flight has returned
\* without rejecting and nothing is in flight; auth tells whether the caller was
\* authenticated at the call.
Returned(key, auth) ==
  /\ ev.done.op = "navigateTo" /\ ev.done.req = key /\ ev.done.auth = auth
  /\ ev.done.res \in { "ok", "same", "modal" }
  /\ Quiet

\* C2: when an anonymous visitor's navigateTo('dashboard') has returned,
\* currentPage is landing; when an authenticated visitor's navigateTo('login')
\* has returned, currentPage is dashboard.
C2_AuthGuardRoundTrip ==
  /\ Returned(PAGES.DASHBOARD, FALSE) => currentPage = PAGES.LANDING
  /\ Returned(PAGES.LOGIN, TRUE) => currentPage = PAGES.DASHBOARD

\* The first half of C2 from a state where the page is accessible.
C2_AnonymousHalf ==
  [][ Accessible => (Returned(PAGES.DASHBOARD, FALSE) => currentPage = PAGES.LANDING)' ]_vars

\* C3: an authenticated visitor's navigateTo of an auth-restricted page does not
\* throw and does not call the fragment loader for the restricted page, and when
\* it has returned currentPage is dashboard.
C3_RestrictedDeniedToDashboard ==
  /\ (ev.nav.alone /\ ev.nav.auth /\ ev.nav.key \in AUTH.restricted) =>
       /\ ev.nav.kind \notin { "RangeError", "modal" }
       /\ \A n \in BagOf(navs) : n.uid # NULL => n.page \notin AUTH.restricted
  /\ \A key \in AUTH.restricted : Returned(key, TRUE) => currentPage = PAGES.DASHBOARD

\* C4: a navigateTo with a key that has no route does not throw, is carried out
\* as a navigation to landing, and when it has returned currentPage is landing.
C4_UnknownKeyGoesToLanding ==
  /\ (ev.nav.alone /\ ev.nav.key \notin DOMAIN ROUTES) =>
       /\ ev.nav.kind \in { "same", "page" }
       /\ ev.nav.kind = "page" => \E n \in BagOf(navs) : n.page = PAGES.LANDING
  /\ (ev.done.op = "navigateTo" /\ ev.done.req \notin DOMAIN ROUTES) =>
       ev.done.res # "RangeError"
  /\ \A key \in PageKeys \ DOMAIN ROUTES :
       \A auth \in BOOLEAN : Returned(key, auth) => currentPage = PAGES.LANDING

\* C4 for the anonymous visitor alone.
C4_AnonymousHalf ==
  /\ (ev.nav.alone /\ ev.nav.key \notin DOMAIN ROUTES /\ ~ ev.nav.auth) =>
       /\ ev.nav.kind \in { "same", "page" }
       /\ ev.nav.kind = "page" => \E n \in BagOf(navs) : n.page = PAGES.LANDING
  /\ \A key \in PageKeys \ DOMAIN ROUTES :
       Returned(key, FALSE) => currentPage = PAGES.LANDING

\* C5: a step that calls navigateTo(X) while currentPage is X returns at once:
\* no fragment load is started and history, currentPage and lastPage stay as
\* they are.
C5_IdempotentRenavigation ==
  [][ (ev'.nav.key # NULL /\ ev'.nav.key = currentPage) =>
        /\ ev'.nav.kind = "same"
        /\ navs' = navs
        /\ UNCHANGED << history, currentPage, lastPage >> ]_vars

\* A visitor has called navigateTo(X) a second time, on page X after the first
\* call pushed its history entry and loaded X, and the call has returned.
C5_Witness ==
  /\ ev.nav.key = currentPage /\ ev.nav.kind = "same"
  /\ ev.done.op = "navigateTo" /\ ev.done.res = "same"
  /\ calls = 2 /\ Len(history) = 2 /\ history[hidx].state = currentPage

\* The suspended navigateTo calls a step has added.
Started == { n \in BagOf(navs') : n \notin BagOf(navs) \/ navs'[n] > navs[n] }

\* C6: a step in which navigateTo goes on to a page route has pushed or replaced
\* the history entry of that page and leaves currentPage as it is; the fragment
\* loader is called in that step or a later one; currentPage and lastPage change
\* only in a step in which the load of the new page completes.
C6_HistoryThenLoadThenState ==
  [][ /\ ev'.nav.kind = "page" =>
           /\ \E n \in Started :
                /\ n.pc \in { "persist", "load" }
                /\ history'[hidx'].state = n.page
           /\ UNCHANGED << currentPage, lastPage >>
      /\ (currentPage' # currentPage \/ lastPage' # lastPage) =>
           \E n \in BagOf(navs) :
             /\ n.pc = "load" /\ n.hist \in { "push", "replace" }
             /\ navs' = BagDel(navs, n)
             /\ currentPage' = n.page /\ lastPage' = currentPage ]_vars

\* A navigateTo has completed the load of the page of the current history entry.
C6_Witness ==
  /\ ev.done.res = "ok" /\ ev.done.op = "navigateTo"
  /\ history[hidx].state = currentPage
  /\ Len(history) > 1

\* The session rows of user u in the table t.
rowsOf(t, u) == { s \in t : s.user_id = u }

\* C7: when createSession returns a token for a user with no other issuance for
\* that user in flight since the login began, the session table holds exactly
\* one row of that user, it carries the new token, and no row carries a token
\* the user's sessions had when the login began.
C7_SingleSessionAfterSuccessiveLogins ==
  [][ (ev'.done.op = "createSession" /\ ev'.done.auth) =>
        /\ Cardinality(rowsOf(session', ev'.done.req)) = 1
        /\ \A s \in rowsOf(session', ev'.done.req) : s.token = ev'.done.res
        /\ \A t \in ev'.done.prior : \A s \in session' : s.token # t ]_vars

\* A second login of a user has issued its session while the session of the
\* first was in the table when it began.
C7_Witness ==
  /\ ev.done.op = "createSession" /\ ev.done.auth
  /\ ev.done.prior = { makeToken(1) } /\ ev.done.res = makeToken(2)
  /\ sessionToken = ev.done.res

\* C8: whenever no session issuance is in flight, the session table holds at
\* most one row per user.
C8_SingleSessionInvariant ==
  (\A l \in BagOf(logins) : l.pc \notin { "delete", "add" }) =>
    \A u \in DOMAIN users : Cardinality(rowsOf(session, u)) <= 1

\* The reads of getCurrentUser a step has moved to the fetch of the user.
Resolved == { r \in BagOf(reads') : r.pc = "user" /\ r \notin BagOf(reads) }

\* C9: getCurrentUser goes on to fetch a user exactly when the row of the
\* stored token exists and does not expire before now, and the user it returns
\* is that row's owner; when it returns no user the stored token is cleared and
\* no row carries the token it looked up.
C9_SessionResolution ==
  [][ /\ \A r \in BagOf(reads) :
           (r.pc = "lookup" /\ r \notin BagOf(reads')) =>
             LET live == { s \in session : s.token = r.token /\ s.expires_at >= now }
             IN /\ live # {} <=> Resolved # {}
                /\ \A q \in Resolved :
                     /\ q.token = sessionToken
                     /\ \E s \in live : s.user_id = q.uid
      /\ (ev'.done.op = "getCurrentUser" /\ ev'.done.res # NULL) =>
           \E r \in BagOf(reads) : r.pc = "user" /\ r.uid = ev'.done.res
      /\ (ev'.done.op = "getCurrentUser" /\ ev'.done.res = NULL) =>
           /\ sessionToken' = NULL
           /\ \A s \in session' : s.token # ev'.done.req ]_vars

\* getCurrentUser has returned the owner of a live session.
C9_Witness ==
  /\ ev.done.op = "getCurrentUser" /\ ev.done.res # NULL
  /\ currentUser = ev.done.res

\* getCurrentUser has found the session expired and returned no user.
C9_WitnessExpired ==
  /\ ev.done.op = "getCurrentUser" /\ ev.done.res = NULL
  /\ session # {}

\* C10: a sweep deletes exactly the rows that expire before the date it took,
\* removes the stored token exactly when a deleted row carries it, and leaves
\* every other row as it is.
C10_ExpirySweep ==
  [][ (ev'.done.op = "cleanupExpiredSessions" /\ ev'.done.res = "deleted") =>
        LET date == ev'.done.req
            deleted == session \ session'
        IN /\ deleted = { s \in session : s.expires_at < date }
           /\ session' = session \ deleted
           /\ sessionToken' = NULL <=>
                (sessionToken = NULL \/ \E s \in deleted : s.token = sessionToken)
           /\ sessionToken' # NULL => sessionToken' = sessionToken ]_vars

\* The sweeps a step has moved from the query to the delete.
Queried == { w \in BagOf(sweeps') : w.pc = "delete" /\ w \notin BagOf(sweeps) }

\* C10, of the rows the query of the sweep finds: the query finds exactly the
\* rows that expire before the date the sweep took; the delete removes exactly
\* the found rows still in the table and no other row, and removes the stored
\* token exactly when a found row carries it; a sweep that finds no row changes
\* nothing.
C10_ExpirySweepOfQuery ==
  [][ /\ \A w \in Queried : w.found = { s \in session : s.expires_at < w.date }
      /\ (ev'.done.op = "cleanupExpiredSessions" /\ ev'.done.res = "none") =>
           /\ \A s \in session : s.expires_at >= ev'.done.req
           /\ UNCHANGED << session, sessionToken >>
      /\ (ev'.done.op = "cleanupExpiredSessions" /\ ev'.done.res = "deleted") =>
           LET date == ev'.done.req
               found == ev'.done.found
           IN /\ \A s \in found : s.expires_at < date
              /\ session' = session \ found
              /\ \A s \in session : s.expires_at >= date => s \in session'
              /\ sessionToken' = NULL <=>
                   (sessionToken = NULL \/ \E s \in found : s.token = sessionToken)
              /\ sessionToken' # NULL => sessionToken' = sessionToken ]_vars

\* A sweep has deleted an expired session whose token was the stored one while
\* the live session of another user stays.
C10_Witness ==
  /\ ev.done.op = "cleanupExpiredSessions" /\ ev.done.res = "deleted"
  /\ sessionToken = NULL
  /\ \E s \in session : s.expires_at >= ev.done.req
  /\ \E s \in ev.done.found : s \notin session /\ s.token = makeToken(1)

\* C11, as stated: the sweep deletes no session that is unexpired, removes no
\* stored token that belongs to an unexpired session, ends without an error
\* when a found row is already gone, and a second sweep right after it, with
\* the same date, finds nothing to delete.
C11_SweepSafeAndIdempotent ==
  (ev.done.op = "cleanupExpiredSessions") =>
    /\ ev.done.res \in { "none", "deleted" }
    /\ expiredAt(ev.done.req) = {}

\* C11, of the rows the table held at the query: in every interleaving with
\* logins and logouts, a sweep deletes only rows that have expired, removes the
\* stored token only if no unexpired session carries it, passes over the found
\* rows that are already gone, and leaves no expired row behind but those
\* added after its query, which have a greater id than every row it found; a
\* sweep that finds nothing leaves no expired row at all.
C11_SweepSafe ==
  [][ (ev'.done.op = "cleanupExpiredSessions") =>
        LET date == ev'.done.req IN
        /\ ev'.done.res \in { "none", "deleted" }
        /\ \A s \in session \ session' : s.expires_at < date /\ s.expires_at < now
        /\ sessionToken' # sessionToken =>
             /\ sessionToken' = NULL
             /\ \A s \in session : s.token = sessionToken => s.expires_at < now
        /\ ev'.done.res = "none" =>
             { s \in session' : s.expires_at < date } = {}
        /\ ev'.done.res = "deleted" =>
             /\ session' = session \ (ev'.done.found \ ev'.done.gone)
             /\ \A s \in session' : s.expires_at < date =>
                  \A x \in ev'.done.found : s.id > x.id ]_vars

\* A sweep has ended whose found row a login of the same user had already
\* deleted: the stored token is the one of the live session the login added.
C11_Witness ==
  /\ ev.done.op = "cleanupExpiredSessions" /\ ev.done.res = "deleted"
  /\ ev.done.gone # {}
  /\ \E s \in session : /\ s.token = sessionToken /\ s.expires_at >= now
                         /\ \E x \in ev.done.gone : x.user_id = s.user_id

\* The user's stored hash is the key derived from the password under the
\* stored salt: the user was saved with this password.
Derives(u, p) ==
  /\ users[u].passwordHash # NULL
  /\ users[u].passwordHash = PBKDF2(p, users[u].passwordSalt)

\* C12: verifyLogin(identifier, p) returns the user who bears the identifier
\* as username or email and was saved with the password p, whoever that is, and
\* returns null when there is no such user; it returns a user or null, and
\* never an error.
C12_HashRoundTrip ==
  (ev.done.op = "verifyLogin") =>
    LET usernameOrEmail == ev.done.req[1]
        password == ev.done.req[2]
        bears(u) == usernameOrEmail \in { users[u].username, users[u].email }
    IN /\ ev.done.res \in DOMAIN users \cup { NULL }
       /\ \A u \in DOMAIN users :
            (bears(u) /\ Derives(u, password)) <=> ev.done.res = u

\* C13: a login whose credentials are rejected (no user bears the identifier
\* with a hash derived from the password) returns false and changes nothing:
\* the session table, the stored token, currentUser, currentPage, lastPage,
\* the history and the users stay as they are, and no issuance starts.
C13_FailedLoginChangesNothing ==
  [][ (ev'.done.op = "login" /\ ev'.done.res = "false") =>
        /\ ~ \E u \in DOMAIN users :
               /\ ev'.done.req[1] \in { users[u].username, users[u].email }
               /\ Derives(u, ev'.done.req[2])
        /\ UNCHANGED << session, nextSessionId, sessionToken, currentUser >>
        /\ UNCHANGED << currentPage, lastPage, history, hidx, users, logins >>
        /\ UNCHANGED << activeModal, appCurrentPage, nextToken >> ]_vars

\* A signed-in visitor with a live session has had a login rejected for a
\* wrong password of a registered user.
C13_Witness ==
  /\ ev.done.op = "login" /\ ev.done.res = "false"
  /\ ev.done.req = << "ann", "pw2" >>
  /\ currentUser # NULL /\ sessionToken # NULL
  /\ \E s \in session : s.token = sessionToken /\ s.user_id = currentUser

\* C14: whatever updateCategory is called with, every predefined category
\* keeps the type and the color it was seeded with and stays predefined.
C14_PredefinedImmutability ==
  \A seeded \in Seeded : \E c \in categories :
    /\ c.id = seeded.id
    /\ c.type = seeded.type /\ c.color = seeded.color
    /\ c.predefined = TRUE

\* The row a createCategory that has just returned has stored.
Created == { c \in categories : c.id = ev.done.res }

\* C15: the row a createCategory stores is not predefined, whatever data holds.
C15_CreatedNeverPredefined ==
  (ev.done.op = "createCategory") => \A c \in Created : c.predefined = FALSE

\* C16: the row a createCategory stores has the type income or expense, expense
\* unless data supplies one of the two, and a color of '#' and six hex digits,
\* the gray unless data supplies such a color.
C16_CreatedTypeAndColorValid ==
  (ev.done.op = "createCategory") =>
    LET data == ev.done.req[2] IN
    \A c \in Created :
      /\ c.type \in { "income", "expense" }
      /\ ("type" \notin DOMAIN data \/ data.type \notin { "income", "expense" })
           => c.type = "expense"
      /\ isHexColor(c.color)
      /\ ("color" \notin DOMAIN data \/ ~ isHexColor(data.color)) => c.color = GRAY

\* C19: getCategories(u) returns exactly the predefined categories that are
\* not soft-deleted and the categories of u that are not soft-deleted; no
\* category of another user that is not predefined is among them.
C19_GetCategories ==
  (ev.done.op = "getCategories") =>
    LET u == ev.done.req IN
    /\ ev.done.res = { c \in categories : c.deleted_at = NULL /\ c.predefined = TRUE }
                       \cup { c \in categories : c.deleted_at = NULL /\ c.user_id = u }
    /\ \A c \in ev.done.res : c.predefined = TRUE \/ c.user_id = u

\* getCategories has returned a predefined category and one of the user while
\* the table holds a soft-deleted category of the user and a category of
\* another user, neither of which is returned.
C19_Witness ==
  /\ ev.done.op = "getCategories"
  /\ \E c \in ev.done.res : c.predefined = TRUE
  /\ \E c \in ev.done.res : c.predefined = FALSE /\ c.user_id = ev.done.req
  /\ \E c \in categories \ ev.done.res : c.user_id = ev.done.req /\ c.deleted_at # NULL
  /\ \E c \in categories \ ev.done.res :
       c.user_id \notin { NULL, ev.done.req } /\ c.deleted_at = NULL

\* C20: clearUserData(u) removes every category and every transaction of u,
\* the soft-deleted ones too, and sets the saved page of u to null; every
\* other row stays as it is: the predefined categories, the categories and
\* transactions of other users, the credentials of every user and the sessions.
C20_ClearUserData ==
  [][ (ev'.done.op = "clearUserData") =>
        LET u == ev'.done.req IN
        /\ categories' = { c \in categories : c.user_id # u }
        /\ transactions' = { t \in transactions : t.user_id # u }
        /\ \A c \in categories : c.user_id = NULL => c \in categories'
        /\ users' = [ users EXCEPT ![u].lastPage = NULL ]
        /\ \A v \in DOMAIN users :
             /\ users'[v].passwordHash = users[v].passwordHash
             /\ users'[v].passwordSalt = users[v].passwordSalt
             /\ v # u => users'[v] = users[v]
        /\ UNCHANGED << session, sessionToken >> ]_vars

\* clearUserData has removed the categories and transactions of a user, a
\* soft-deleted one among each, and reset the saved page, while rows of the
\* other user, the predefined categories and the sessions are in the tables.
C20_Witness ==
  /\ ev.done.op = "clearUserData"
  /\ \E c \in ev.done.rows : "type" \in DOMAIN c /\ c.deleted_at # NULL
  /\ \E t \in ev.done.rows : "date" \in DOMAIN t /\ t.deleted_at # NULL
  /\ ev.done.page # NULL /\ users[ev.done.req].lastPage = NULL
  /\ \E c \in categories : c.user_id \notin { NULL, ev.done.req }
  /\ \E t \in transactions : t.user_id # ev.done.req
  /\ Seeded \subseteq categories
  /\ \E x \in session : x.user_id = ev.done.req

\* The rows a getTransactions has returned.
rowsIn(res) == { res[i] : i \in DOMAIN res }

\* C17: no getTransactions, with or without a date range, returns a
\* transaction whose deleted_at is set, and the call leaves every row, the
\* soft-deleted ones too, in the table.
C17_SoftDeleteExclusion ==
  [][ (ev'.done.op = "getTransactions") =>
        /\ \A t \in rowsIn(ev'.done.res) : t.deleted_at = NULL
        /\ \A t \in transactions :
             t.deleted_at # NULL => t \in transactions' /\ t \notin rowsIn(ev'.done.res)
        /\ transactions' = transactions ]_vars

\* A getTransactions with both bounds has returned a row of the user while a
\* soft-deleted row of the user, dated within the bounds, is in the table.
C17_Witness ==
  /\ ev.done.op = "getTransactions"
  /\ ev.done.req[2] # NoDate /\ ev.done.req[3] # NoDate
  /\ ev.done.res # << >>
  /\ \E t \in transactions :
       /\ t.user_id = ev.done.req[1] /\ t.deleted_at # NULL
       /\ t.date.kind = "Date"
       /\ startOfDay(ev.done.req[2]) <= t.date.t /\ t.date.t <= endOfDay(ev.done.req[3])

\* C18, for a call with a bound: getTransactions(u, start, end) returns exactly
\* the transactions of u that are not soft-deleted and are dated from the
\* beginning of the start's day to the end of the end's day, a missing bound
\* leaving that side open, newest first; so it is for every transaction that
\* createTransaction has stored.
C18_DateRange ==
  (ev.done.op = "getTransactions" /\ << ev.done.req[2], ev.done.req[3] >> # << NoDate, NoDate >>) =>
    LET u == ev.done.req[1]
        res == ev.done.res
        s == IF ev.done.req[2] # NoDate THEN startOfDay(ev.done.req[2]) ELSE MinDate
        e == IF ev.done.req[3] # NoDate THEN endOfDay(ev.done.req[3]) ELSE MaxDate
        due == { t \in transactions : /\ t.user_id = u /\ t.deleted_at = NULL
                                       /\ t.date.kind \in { "Date", "string" }
                                       /\ s <= t.date.t /\ t.date.t <= e }
    IN /\ rowsIn(res) = due
       /\ Len(res) = Cardinality(due)
       /\ \A i, j \in DOMAIN res : i < j => res[i].date.t >= res[j].date.t

\* C21: a createTransaction whose data.date does not parse to a date fails
\* with 'Invalid date' and writes nothing: the table is as before the call.
C21_InvalidDateRejected ==
  [][ (/\ ev'.done.op = "createTransaction"
       /\ "date" \in DOMAIN ev'.done.req[2]
       /\ ev'.done.req[2].date.kind \in { "invalid", "empty" }) =>
        /\ ev'.done.error = "Invalid date"
        /\ UNCHANGED << transactions, nextTransactionId >> ]_vars

-----------------------------------------------------------------------------
\* C22: while initApp has neither returned nor failed, no step changes the number
\* of history entries or the index of the current one: the initial render, a
\* guard redirect, the fallback and the session restore only replace the
\* current entry.
C22_BootOnlyReplaces ==
  [][ boot.pc \notin { "done", "failed" } =>
        /\ Len(history') = Len(history)
        /\ hidx' = hidx ]_vars

\* initApp has returned after a session restore whose navigation replaced the
\* state of the only history entry; the user has done nothing yet.
C22_Witness ==
  /\ boot.pc = "done" /\ calls = 0 /\ InFlight = 0
  /\ currentUser # NULL /\ currentPage = PAGES.TEST
  /\ Len(history) = 1 /\ history[1].state = PAGES.TEST

-----------------------------------------------------------------------------
\* The page initApp restores for user u: the saved page if it is the key of a
\* page route, else the dashboard.
restored(u) ==
  LET saved == users[u].lastPage
  IN IF saved # NULL /\ saved \in DOMAIN ROUTES /\ ROUTES[saved].type = "page"
     THEN saved ELSE PAGES.DASHBOARD

\* The step in which initApp returns after its stored token resolved to a
\* session of user boot'.uid.
bootRestored == boot.pc # "done" /\ boot'.pc = "done" /\ boot'.uid # NULL

\* The step in which initApp, having read the saved page, calls navigateTo: the
\* key it passes is the page to restore.
bootNavigates ==
  (boot.pc = "loadPage" /\ boot'.pc # "loadPage") =>
    ev'.nav.key = restored(boot.uid)

-----------------------------------------------------------------------------
\* Whether a visitor (auth: signed in or not) may not access page.
denied(auth, page) ==
  \/ ~ auth /\ page \in AUTH.required
  \/ auth /\ page \in AUTH.restricted

\* C24: a popstate whose state names a page the visitor may not access ends,
\* unless a fragment load fails, with currentPage = dashboard for a signed-in
\* visitor and landing for an anonymous one (for a handler that returns at
\* once: when nothing else was in flight), and no navigateTo of a popstate ever
\* loads the page its visitor was denied.
C24_PopstateDenied ==
  [][ /\ (/\ ev'.done.op = "popstate"
          /\ ev'.done.res \notin { "ignored", "rejected" }
          /\ ev'.nav.key # NULL => ev'.nav.alone
          /\ denied(ev'.done.auth, ev'.done.req)) =>
            currentPage' = IF ev'.done.auth THEN PAGES.DASHBOARD ELSE PAGES.LANDING
      /\ \A n \in BagOf(navs') :
            (n.caller.op = "popstate" /\ denied(n.uid # NULL, n.caller.req)) =>
              n.page # n.caller.req ]_vars

-----------------------------------------------------------------------------
\* C25: a navigateTo with the key of a modal route makes no history call and
\* starts the load of the modal fragment; when the load completes the modal
\* container holds that fragment and activeModal is the key; neither step
\* changes currentPage, lastPage, the history stack, the current entry, the
\* 'app.currentPage' slot or any user's saved page.
C25_ModalFrame ==
  [][ /\ ev'.nav.kind = "modal" =>
            /\ ROUTES[ev'.nav.key].type = "modal"
            /\ \E n \in BagOf(navs') :
                  /\ n.pc = "modal" /\ n.page = ev'.nav.key
                  /\ navs' = BagAdd(navs, n)
            /\ UNCHANGED << currentPage, lastPage, history, hidx, appCurrentPage,
                            users, activeModal, modalContent >>
      /\ ev'.done.res = "modal" =>
            /\ ROUTES[ev'.done.req].type = "modal"
            /\ modalContent' = ev'.done.req
            /\ activeModal' = ev'.done.req
            /\ UNCHANGED << currentPage, lastPage, history, hidx, appCurrentPage,
                            users >> ]_vars

\* The login modal has just been loaded over the page test of a signed-in
\* visitor whose history holds more than one entry.
C25_Witness ==
  /\ ev.done.res = "modal" /\ ev.done.req = PAGES.LOGIN
  /\ activeModal = PAGES.LOGIN /\ modalContent = PAGES.LOGIN
  /\ currentUser # NULL /\ currentPage = PAGES.TEST
  /\ Len(history) > 1

-----------------------------------------------------------------------------
\* The callers of navigateTo other than initApp: the page's helpers
\* (goToLanding, goToDashboard, goToLogin), login, logout and the popstate
\* listener.
Helpers == { "navigateTo", "navigateTo, overlapping", "login", "logout", "popstate" }

\* C26: when a fragment load fails inside a navigateTo called by a helper,
\* login, logout or the popstate listener, the call does not end as a
\* rejection: the step in which the load fails calls navigateTo(landing).
C26_FailureRedirectsToLanding ==
  [][ (ev'.done.op \in Helpers /\ ev'.done.res = "rejected") =>
        ev'.nav.key = PAGES.LANDING ]_vars

-----------------------------------------------------------------------------
\* C27: whenever initApp has returned and nothing is in flight, the page saved
\* for the signed-in user (loadPage) is currentPage; a navigateTo of an anonymous
\* visitor writes its page to 'app.currentPage' in the step of the call, never
\* awaits persistPage and writes no page to a user record.
C27_PersistedPageReconciles ==
  [][ /\ (Quiet' /\ currentUser' # NULL) => users'[currentUser'].lastPage = currentPage'
      /\ \A n \in BagOf(navs') : n.uid = NULL => n.pc # "persist"
      /\ (ev'.nav.kind = "page" /\ ~ ev'.nav.auth) =>
            /\ appCurrentPage' \in DOMAIN ROUTES
            /\ \A u \in DOMAIN users :
                  users'[u].lastPage \in { users[u].lastPage, NULL } ]_vars

-----------------------------------------------------------------------------
\* C28: every navigateTo whose load completes assigns its own page to
\* currentPage (and the page it replaces to lastPage), whatever other
\* navigateTo calls are in flight, and nothing else changes currentPage: with
\* overlapping calls the page of the load that completes last is the final one.
C28_LastLoadWins ==
  [][ /\ \A n \in BagOf(navs) :
            (ev'.done.res = "ok" /\ navs' = BagDel(navs, n)) =>
              /\ n.pc = "load"
              /\ currentPage' = n.page
              /\ lastPage' = currentPage
      /\ currentPage' # currentPage => ev'.done.res = "ok" ]_vars

\* Two calls by a signed-in visitor overlapped, navigateTo(test) first and
\* navigateTo(dashboard) second; the dashboard fragment arrived first and the
\* test fragment last: test is the current page under the dashboard's history
\* entry.
C28_Witness ==
  /\ ev.done = DoneEv("navigateTo", PAGES.TEST, TRUE, "ok")
  /\ BagSize(navs) = 0
  /\ currentPage = PAGES.TEST /\ lastPage = PAGES.DASHBOARD
  /\ history[hidx].state = PAGES.DASHBOARD
  /\ users[currentUser].lastPage = PAGES.DASHBOARD

-----------------------------------------------------------------------------
\* Logout where there is something to forget: the document is loaded with a
\* live session of the first user stored, and the tables hold categories and
\* transactions of both users.
InitLogout ==
  /\ InitStore(InitUsers, { LiveStored }, { BASE })
  /\ \E d \in { x \in InitStoredData : x.txs # {} } :
       /\ categories = d.cats /\ nextCategoryId = d.nextCat
       /\ transactions = d.txs /\ nextTransactionId = d.nextTx

SpecLogout == InitLogout /\ [][Next]_vars

\* The step in which the landing navigation of a logout ends with the landing
\* page shown, the logout having been called with nothing in flight and no
\* other operation called since.
logoutSettled ==
  /\ ev'.done.op = "logout"
  /\ ev'.done.res \in { "ok", "same" }
  /\ ev'.done.req.seq = calls'

\* What logout() of user u leaves behind, apart from the 'app.currentPage'
\* slot: no session row of u, no stored token, no current user, landing shown,
\* and without keepData no category and no transaction of u.
loggedOut(u, keepData) ==
  /\ \A r \in session' : r.user_id # u
  /\ sessionToken' = NULL
  /\ currentUser' = NULL
  /\ currentPage' = PAGES.LANDING
  /\ ~ keepData =>
        /\ \A c \in categories' : c.user_id # u
        /\ \A t \in transactions' : t.user_id # u

\* A logout() without a current user changes nothing.
logoutNoUser ==
  ev'.done.res = "noop" =>
    UNCHANGED << storeVars, browserVars, dbVars, dataVars, procVars >>

-----------------------------------------------------------------------------
\* The URLs of the pages: navigateTo is called with the key of every page
\* route, by an anonymous visitor and by one whose session initApp restored,
\* and the visitor goes back and forward.
PageRoutes == { k \in DOMAIN ROUTES : ROUTES[k].type = "page" }

NextUrl ==
  \/ InitAppStarted
  \/ InitAppRestoring
  \/ InitAppNavigated
  \/ \E r \in BagOf(reads) : SessionLookedUp(r)
  \/ \E r \in BagOf(reads) : UserFetched(r)
  \/ \E key \in PageRoutes, uh \in BOOLEAN : NavCall(key, uh)
  \/ \E n \in BagOf(navs) : NavPersisted(n)
  \/ \E n \in BagOf(navs) : NavLoaded(n)
  \/ \E i \in 1..MaxHistory : Popstate(i)

SpecUrl == Init /\ [][NextUrl]_vars

\* C30: the history entry a navigateTo writes for the page route P (pushState
\* or replaceState) has P's canonical path, the base path followed by the
\* route's path, and getPageFromUrl of the location it makes current is P.
C30_UrlRoundTrip ==
  [][ (ev'.nav.kind = "page" /\ history' # history) =>
        LET P == history'[hidx'].state
        IN /\ P \in PageRoutes
           /\ normalizePath(history'[hidx'].path)
                = normalizePath(buildFullPath(ROUTES[P].path))
           /\ getPageFromUrl(hidx)' = P ]_vars

-----------------------------------------------------------------------------
\* C31: when two updateCategory calls on the same row of a user overlap (the
\* second had its record built when the first returned) and their data name
\* different fields, the row stored after both have returned carries the
\* fields of both.
C31_NoLostUpdate ==
  [][ (/\ ev.done.op = "updateCategory" /\ ev.done.error = NULL
       /\ ev'.done.op = "updateCategory" /\ ev'.done.error = NULL
       /\ ev.done.req[1] = ev'.done.req[1]
       /\ DOMAIN ev.done.req[2] \cap DOMAIN ev'.done.req[2] = {}
       /\ "id" \notin DOMAIN ev.done.req[2] \cup DOMAIN ev'.done.req[2]
       /\ \A c \in categories : c.id = ev.done.req[1] => c.predefined = FALSE
       /\ \E u \in BagOf(reads) : u.pc = "put" /\ reads' = BagDel(reads, u)) =>
        \E c \in categories' :
          /\ c.id = ev'.done.req[1]
          /\ \A f \in DOMAIN ev.done.req[2] : c[f] = ev.done.req[2][f]
          /\ \A f \in DOMAIN ev'.done.req[2] : c[f] = ev'.done.req[2][f] ]_vars

-----------------------------------------------------------------------------
\* C32: no navigateTo call, whatever its key, its updateHistory and its
\* visitor, nests redirects until the stack is full: each call reaches the
\* same-page return, the modal branch or the history call of a page within
\* StackLimit nested calls.
C32_NavigationTerminates ==
  [][ ev'.nav.key # NULL => ev'.nav.kind \in { "same", "modal", "page" } ]_vars

-----------------------------------------------------------------------------
\* C33: whenever activeModal is set and no timer of closeLoginModal is pending,
\* the modal container holds the fragment of that modal.
C33_OpenModalStaysLoaded ==
  (activeModal # NULL /\ timers = 0) => modalContent = activeModal

-----------------------------------------------------------------------------
\* C34: once initApp has returned and nothing is in flight, the page in the
\* state of the current history entry is currentPage.
C34_HistoryAgrees ==
  Quiet => history[hidx].state = currentPage

-----------------------------------------------------------------------------
\* C35: whenever currentUser is set and nothing is in flight, the stored token
\* is the token of a session row owned by that user: the store keeps no current
\* user whose session row has been removed. (That the row has not expired is
\* left out: a row that merely expired with the clock does not refute this.)
C35_UserBackedBySession ==
  (Quiet /\ currentUser # NULL) =>
    \E s \in session : s.token = sessionToken /\ s.user_id = currentUser

-----------------------------------------------------------------------------
\* The session restore with a login that does not wait for it: initApp runs
\* from the start of the document while login may be called at any moment.
NextRestore ==
  \/ InitAppStarted
  \/ InitAppRestoring
  \/ InitAppNavigated
  \/ \E r \in BagOf(reads) : SessionLookedUp(r)
  \/ \E r \in BagOf(reads) : ExpiredSessionDeleted(r)
  \/ \E r \in BagOf(reads) : UserFetched(r)
  \/ \E n \in BagOf(navs) : NavPersisted(n)
  \/ \E n \in BagOf(navs) : NavLoaded(n)
  \/ \E username \in Identifiers, password \in Passwords :
       LoginCallEarly(username, password, FALSE)
  \/ \E username \in Identifiers, password \in Passwords :
       LoginCall(username, password, FALSE)
  \/ \E l \in BagOf(logins) : LoginSessionsDeleted(l)
  \/ \E l \in BagOf(logins) : LoginSessionAdded(l)
  \/ \E l \in BagOf(logins) : LoginNavigate(l)

SpecRestore == InitSession /\ [][NextRestore]_vars

\* The session rows that a login of this document added: the rows of earlier
\* visits have the ids below 3.
issuedRows == { s \in session : s.id >= 3 }

\* C36: a token stored by a successful login survives a concurrent session
\* read: once the boot-time getCurrentUser and the logins have completed and
\* one row issued by a login is in the table, the stored token is the token
\* of that row and the row belongs to the current user.
C36_LoginTokenSurvivesRead ==
  (Quiet /\ Cardinality(issuedRows) = 1) =>
    \A s \in issuedRows : sessionToken = s.token /\ s.user_id = currentUser

-----------------------------------------------------------------------------
\* db-service.js: createCategory and createTransaction with a data object that
\* carries a user_id of its own, as a record read back from the table or
\* received from elsewhere does.
OwnerPayloads ==
  { [ deleted_at |-> NULL ],
    [ user_id |-> UserIds[1] ],
    [ user_id |-> UserIds[2] ],
    [ user_id |-> UserIds[2], deleted_at |-> DELETED ] }

NextOwnership ==
  \/ \E i \in 1..Len(UserIds), data \in OwnerPayloads : CreateCategory(UserIds[i], data)
  \/ \E i \in 1..Len(UserIds), data \in OwnerPayloads : CreateTransaction(UserIds[i], data)
  \/ \E i \in 1..Len(UserIds) : GetCategories(UserIds[i])
  \/ \E i \in 1..Len(UserIds) : GetTransactionsAll(UserIds[i])

SpecOwnership == InitData /\ [][NextOwnership]_vars

\* C37: every category that createCategory(userId, data) writes and every
\* transaction that createTransaction(userId, data) writes has user_id equal
\* to the userId argument, whatever fields data carries.
C37_RowOwnedByArgument ==
  [][ /\ ev'.done.op = "createCategory" =>
           \A c \in categories' \ categories : c.user_id = ev'.done.req[1]
      /\ ev'.done.op = "createTransaction" =>
           \A t \in transactions' \ transactions : t.user_id = ev'.done.req[1]
    ]_vars

-----------------------------------------------------------------------------
\* C38: a profile edit keeps the credentials: saveUser with the id of a stored
\* user and no password leaves the stored salt and hash as they were, so the
\* user still has a hash to verify the previous password against.
C38_ProfileEditKeepsCredentials ==
  [][ (/\ ev'.done.op = "saveUser"
       /\ ev'.done.req[1].id \in DOMAIN users
       /\ ev'.done.req[2] = "") =>
        LET id == ev'.done.req[1].id IN
        /\ users'[id].passwordSalt = users[id].passwordSalt
        /\ (users'[id].passwordHash = NULL) = (users[id].passwordHash = NULL)
    ]_vars

-----------------------------------------------------------------------------
\* A page that can be restored for a signed-in user: the key of a page-type
\* route that is not auth-restricted.
restorable(page) ==
  /\ page \in DOMAIN ROUTES
  /\ ROUTES[page].type = "page"
  /\ page \notin AUTH.restricted

\* C39: every last-page value that navigateTo writes to a user row is the key
\* of a page-type route that is not restricted for an authenticated visitor,
\* and the page a login is about to navigate to (the saved page, else the
\* dashboard) is such a page.
C39_PersistedPagesRestorable ==
  [][ /\ \A u \in DOMAIN users :
           (users'[u].lastPage # users[u].lastPage /\ users'[u].lastPage # NULL)
             => restorable(users'[u].lastPage)
      /\ \A l \in BagOf(logins) :
           l.pc = "loadPage" =>
             restorable(IF loadPage(l.uid) # NULL THEN loadPage(l.uid)
                        ELSE PAGES.DASHBOARD)
    ]_vars

\* A login is about to navigate to the dashboard that a navigateTo saved
\* for the user.
C39_Witness ==
  \E l \in BagOf(logins) : l.pc = "loadPage" /\ loadPage(l.uid) = PAGES.DASHBOARD

====
